---------------------------- MODULE Spec2Model ----------------------------
(***************************************************************************)
(* The HTTP gateway of nequeo/resource: the request router                 *)
(* (ApplicationServer, cfserver) and the session proxy (CallService,       *)
(* cloudflare-calls/callservice.js); and the token verifier (handler and   *)
(* getPublicKeys), which runs as a process of its own; and the signalling  *)
(* client (WebSocketClientBase), which runs in a browser.                  *)
(*                                                                         *)
(* Strings are TLA+ strings (TLC evaluates Len, \o and SubSeq on them).    *)
(* JavaScript values are tagged records:                                   *)
(*   [t |-> "undefined"], [t |-> "null"], [t |-> "bool", v |-> b],         *)
(*   [t |-> "num", v |-> n], [t |-> "str", v |-> s],                       *)
(*   [t |-> "arr", v |-> <<values>>],                                      *)
(*   [t |-> "obj", v |-> <<[k |-> key, v |-> value], ...>>] in insertion   *)
(*   order, [t |-> "error", name |-> n, message |-> m] for Error objects.  *)
(***************************************************************************)
EXTENDS Naturals, Sequences, FiniteSets, TLC

-----------------------------------------------------------------------------
(* JavaScript values *)

Undefined == [t |-> "undefined"]

Null == [t |-> "null"]

Bool(b) == [t |-> "bool", v |-> b]

Num(n) == [t |-> "num", v |-> n]

\* the number value Infinity
Infinity == [t |-> "inf"]

Str(s) == [t |-> "str", v |-> s]

Arr(items) == [t |-> "arr", v |-> items]

Obj(members) == [t |-> "obj", v |-> members]

\* new Error(message), new TypeError(message), new SyntaxError(message)
Err(name, message) == [t |-> "error", name |-> name, message |-> message]

-----------------------------------------------------------------------------
(* String primitives *)

Char(s, i) == SubSeq(s, i, i)

\* String.prototype.startsWith
StartsWith(s, prefix) ==
    /\ Len(s) >= Len(prefix)
    /\ SubSeq(s, 1, Len(prefix)) = prefix

Lower == "abcdefghijklmnopqrstuvwxyz"

Upper == "ABCDEFGHIJKLMNOPQRSTUVWXYZ"

LowerLetters == {Char(Lower, i) : i \in 1..Len(Lower)}

UpperChar(c) ==
    IF c \in LowerLetters
    THEN LET i == CHOOSE j \in 1..Len(Lower) : Char(Lower, j) = c
         IN  Char(Upper, i)
    ELSE c

RECURSIVE UpperFrom(_, _)
UpperFrom(s, i) ==
    IF i > Len(s) THEN ""
    ELSE UpperChar(Char(s, i)) \o UpperFrom(s, i + 1)

\* String.prototype.toUpperCase
ToUpperCase(s) == UpperFrom(s, 1)

\* index of the first occurrence of one of the characters of `stops` in s
\* at or after i; Len(s) + 1 when there is none
FindAny(s, stops, i) ==
    LET hits == {j \in i..Len(s) :
                    \E k \in 1..Len(stops) : Char(stops, k) = Char(s, j)}
    IN  IF hits = {} THEN Len(s) + 1
        ELSE CHOOSE j \in hits : \A k \in hits : j <= k

\* the pieces of s from position i on, cut at each occurrence of sep
RECURSIVE SplitFrom(_, _, _)
SplitFrom(s, sep, i) ==
    LET j == FindAny(s, sep, i)
    IN  IF j > Len(s) THEN <<SubSeq(s, i, Len(s))>>
        ELSE <<SubSeq(s, i, j - 1)>> \o SplitFrom(s, sep, j + 1)

\* String.prototype.split(sep) for a one-character separator
Split(s, sep) == SplitFrom(s, sep, 1)

RECURSIVE Join(_, _)
Join(parts, sep) ==
    IF parts = <<>> THEN ""
    ELSE IF Len(parts) = 1 THEN parts[1]
    ELSE parts[1] \o sep \o Join(Tail(parts), sep)

-----------------------------------------------------------------------------
(* JSON.parse and JSON.stringify, on the JSON subset of the payloads:      *)
(* null, true, false, non-negative integers with an optional exponent      *)
(* part e<digits>, strings with the escapes \" and \\, arrays, objects, and  *)
(* the space as the only white space.  A number is a double: a literal     *)
(* above the largest double is read as Infinity, which is written as null. *)

Digits == "0123456789"

IsDigit(c) == \E d \in 1..Len(Digits) : Char(Digits, d) = c

DigitVal(c) == (CHOOSE d \in 1..Len(Digits) : Char(Digits, d) = c) - 1

ParseFail == [ok |-> FALSE, val |-> Undefined, pos |-> 0]

ParseOk(val, pos) == [ok |-> TRUE, val |-> val, pos |-> pos]

RECURSIVE SkipWs(_, _)
SkipWs(s, i) ==
    IF i <= Len(s) /\ Char(s, i) = " " THEN SkipWs(s, i + 1) ELSE i

\* the digits of a number starting at i: its value and the position after it
RECURSIVE ParseDigits(_, _, _)
ParseDigits(s, i, acc) ==
    IF i <= Len(s) /\ IsDigit(Char(s, i))
    THEN ParseDigits(s, i + 1, 10 * acc + DigitVal(Char(s, i)))
    ELSE ParseOk(Num(acc), i)

RECURSIVE Pow10(_)
Pow10(x) == IF x = 0 THEN 1 ELSE 10 * Pow10(x - 1)

\* the double of the literal <m>e<x>, m written with `width` digits: above
\* 1.7976931348623157e308 it is Infinity; the values from 2^31 up to there
\* are not in the subset
Scaled(m, width, x) ==
    CASE m = 0 -> Num(0)
      [] m > 0 /\ width + x > 309 -> Infinity
      [] m > 0 /\ width + x <= 9 -> Num(m * Pow10(x))

\* a JSON number: 0, or a non-zero digit followed by digits, then an
\* optional exponent part
ParseNumber(s, i) ==
    LET d == IF Char(s, i) = "0" THEN ParseOk(Num(0), i + 1)
             ELSE ParseDigits(s, i, 0)
        j == d.pos
    IN  IF j <= Len(s) /\ Char(s, j) \in {"e", "E"}
        THEN IF j + 1 <= Len(s) /\ IsDigit(Char(s, j + 1))
             THEN LET x == ParseDigits(s, j + 1, 0)
                  IN  ParseOk(Scaled(d.val.v, j - i, x.val.v), x.pos)
             ELSE ParseFail
        ELSE d

\* the characters of a string literal from i (after the opening quote)
RECURSIVE ParseChars(_, _, _)
ParseChars(s, i, acc) ==
    IF i > Len(s) THEN ParseFail
    ELSE IF Char(s, i) = "\"" THEN ParseOk(Str(acc), i + 1)
    ELSE IF Char(s, i) = "\\"
         THEN IF i + 1 <= Len(s) /\ Char(s, i + 1) \in {"\"", "\\"}
              THEN ParseChars(s, i + 2, acc \o Char(s, i + 1))
              ELSE ParseFail
    ELSE ParseChars(s, i + 1, acc \o Char(s, i))

ParseLiteral(s, i, word, val) ==
    IF i + Len(word) - 1 <= Len(s) /\ SubSeq(s, i, i + Len(word) - 1) = word
    THEN ParseOk(val, i + Len(word))
    ELSE ParseFail

\* obj[k] = v on an object under construction: a repeated key keeps its
\* first position and takes the last value
SetMember(members, k, v) ==
    IF \E j \in 1..Len(members) : members[j].k = k
    THEN [j \in 1..Len(members) |->
             IF members[j].k = k THEN [k |-> k, v |-> v] ELSE members[j]]
    ELSE Append(members, [k |-> k, v |-> v])

RECURSIVE ParseValue(_, _)
RECURSIVE ParseElements(_, _, _)
RECURSIVE ParseMembers(_, _, _)

\* value, with leading white space; pos is the position after the value
ParseValue(s, i0) ==
    LET i == SkipWs(s, i0)
        c == Char(s, i)
    IN  IF i > Len(s) THEN ParseFail
        ELSE IF c = "{" THEN
            LET j == SkipWs(s, i + 1)
            IN  IF j <= Len(s) /\ Char(s, j) = "}"
                THEN ParseOk(Obj(<<>>), j + 1)
                ELSE ParseMembers(s, i + 1, <<>>)
        ELSE IF c = "[" THEN
            LET j == SkipWs(s, i + 1)
            IN  IF j <= Len(s) /\ Char(s, j) = "]"
                THEN ParseOk(Arr(<<>>), j + 1)
                ELSE ParseElements(s, i + 1, <<>>)
        ELSE IF c = "\"" THEN ParseChars(s, i + 1, "")
        ELSE IF IsDigit(c) THEN ParseNumber(s, i)
        ELSE IF c = "n" THEN ParseLiteral(s, i, "null", Null)
        ELSE IF c = "t" THEN ParseLiteral(s, i, "true", Bool(TRUE))
        ELSE IF c = "f" THEN ParseLiteral(s, i, "false", Bool(FALSE))
        ELSE ParseFail

\* element (, element)* ]
ParseElements(s, i, acc) ==
    LET r == ParseValue(s, i)
        j == SkipWs(s, r.pos)
    IN  IF ~r.ok \/ j > Len(s) THEN ParseFail
        ELSE IF Char(s, j) = "," THEN ParseElements(s, j + 1, Append(acc, r.val))
        ELSE IF Char(s, j) = "]" THEN ParseOk(Arr(Append(acc, r.val)), j + 1)
        ELSE ParseFail

\* "key" : value (, "key" : value)* }
ParseMembers(s, i, acc) ==
    LET k0 == SkipWs(s, i)
        key == IF k0 <= Len(s) /\ Char(s, k0) = "\""
               THEN ParseChars(s, k0 + 1, "") ELSE ParseFail
        c == SkipWs(s, key.pos)
        r == IF key.ok /\ c <= Len(s) /\ Char(s, c) = ":"
             THEN ParseValue(s, c + 1) ELSE ParseFail
        j == SkipWs(s, r.pos)
    IN  IF ~r.ok \/ j > Len(s) THEN ParseFail
        ELSE IF Char(s, j) = ","
             THEN ParseMembers(s, j + 1, SetMember(acc, key.val.v, r.val))
        ELSE IF Char(s, j) = "}"
             THEN ParseOk(Obj(SetMember(acc, key.val.v, r.val)), j + 1)
        ELSE ParseFail

\* JSON.parse(text): ok = FALSE is the SyntaxError it throws
JSONparse(text) ==
    LET r == ParseValue(text, 1)
    IN  IF r.ok /\ SkipWs(text, r.pos) > Len(text) THEN r ELSE ParseFail

RECURSIVE NatToStr(_)
NatToStr(n) ==
    IF n < 10 THEN Char(Digits, n + 1)
    ELSE NatToStr(n \div 10) \o Char(Digits, (n % 10) + 1)

RECURSIVE QuoteFrom(_, _)
QuoteFrom(s, i) ==
    IF i > Len(s) THEN ""
    ELSE (IF Char(s, i) \in {"\"", "\\"} THEN "\\" ELSE "") \o Char(s, i)
         \o QuoteFrom(s, i + 1)

\* the characters of a string literal, escaped
Quote(s) == QuoteFrom(s, 1)

RECURSIVE JSONstringify(_)
RECURSIVE StringifyItems(_)
RECURSIVE StringifyMembers(_, _)

\* JSON.stringify(value) of a value that is not undefined.  An Error object
\* has no enumerable own property: it serializes as {}.
JSONstringify(val) ==
    CASE val.t = "null" -> "null"
      [] val.t = "bool" -> IF val.v THEN "true" ELSE "false"
      [] val.t = "num" -> NatToStr(val.v)
      [] val.t = "inf" -> "null"
      [] val.t = "str" -> "\"" \o Quote(val.v) \o "\""
      [] val.t = "arr" -> "[" \o StringifyItems(val.v) \o "]"
      [] val.t = "obj" -> "{" \o StringifyMembers(val.v, TRUE) \o "}"
      [] val.t = "error" -> "{}"

\* an undefined array element serializes as null
StringifyItems(items) ==
    IF items = <<>> THEN ""
    ELSE (IF items[1].t = "undefined" THEN "null" ELSE JSONstringify(items[1]))
         \o (IF Len(items) > 1 THEN "," ELSE "")
         \o StringifyItems(Tail(items))

\* a member whose value is undefined is left out
StringifyMembers(members, first) ==
    IF members = <<>> THEN ""
    ELSE IF members[1].v.t = "undefined"
         THEN StringifyMembers(Tail(members), first)
    ELSE (IF first THEN "" ELSE ",")
         \o "\"" \o Quote(members[1].k) \o "\":" \o JSONstringify(members[1].v)
         \o StringifyMembers(Tail(members), FALSE)

\* String(value) as string concatenation applies it (url + sessionId)
JsToString(val) ==
    CASE val.t = "undefined" -> "undefined"
      [] val.t = "null" -> "null"
      [] val.t = "str" -> val.v

\* obj[k]: undefined when obj has no property k
GetProp(obj, k) ==
    IF \E j \in 1..Len(obj.v) : obj.v[j].k = k
    THEN obj.v[CHOOSE j \in 1..Len(obj.v) : obj.v[j].k = k].v
    ELSE Undefined

-----------------------------------------------------------------------------
(* The router's path handling *)

\* the path segments as the URL parser keeps them: "." is dropped, ".."
\* removes the segment before it, and either of them in last position
\* leaves an empty last segment
RECURSIVE DotSegments(_, _)
DotSegments(segs, out) ==
    IF segs = <<>> THEN out
    ELSE LET seg == Head(segs)
             last == Len(segs) = 1
         IN  IF seg = ".."
             THEN DotSegments(Tail(segs),
                      (IF out = <<>> THEN out ELSE SubSeq(out, 1, Len(out) - 1))
                      \o (IF last THEN <<"">> ELSE <<>>))
             ELSE IF seg = "."
             THEN DotSegments(Tail(segs), out \o (IF last THEN <<"">> ELSE <<>>))
             ELSE DotSegments(Tail(segs), Append(out, seg))

\* new URL("http://localhost" + url).pathname, for a url that starts with
\* "/" and is written with letters, digits, "/", ".", "?", "#", "=":
\* the query and the fragment are cut off and dot segments are resolved
Pathname(url) ==
    LET raw == SubSeq(url, 1, FindAny(url, "?#", 1) - 1)
        segs == Split(SubSeq(raw, 2, Len(raw)), "/")
    IN  "/" \o Join(DotSegments(segs, <<>>), "/")

\* the branch splitting req.url itself, without parsing it as a URL
SessionIdOf_rawUrl(url) ==
    LET parts == Split(url, "/")
    IN  IF Len(parts) >= 7 THEN Str(parts[7]) ELSE Undefined

\* pathname.split("/")[6]: undefined when the path has fewer segments
SessionIdOf(url) ==
    LET parts == Split(Pathname(url), "/")
    IN  IF Len(parts) >= 7 THEN Str(parts[7]) ELSE Undefined

InfoPrefix == "/api/cf/call/sessions/info"

ClosePrefix == "/api/cf/call/sessions/close"

RenegPrefix == "/api/cf/call/sessions/reneg"

AddPrefix == "/api/cf/call/sessions/add"

NewPrefix == "/api/cf/call/sessions/new"

\* the chain with the new-session branch not testing the method
Route_newAnyMethod(method, url) ==
    LET m == ToUpperCase(method)
    IN  IF m = "GET" /\ StartsWith(url, InfoPrefix) THEN "info"
        ELSE IF m = "OPTIONS" /\ StartsWith(url, InfoPrefix) THEN "options_info"
        ELSE IF m = "PUT" /\ StartsWith(url, ClosePrefix) THEN "close"
        ELSE IF m = "OPTIONS" /\ StartsWith(url, ClosePrefix) THEN "options_close"
        ELSE IF m = "PUT" /\ StartsWith(url, RenegPrefix) THEN "reneg"
        ELSE IF m = "OPTIONS" /\ StartsWith(url, RenegPrefix) THEN "options_reneg"
        ELSE IF m = "POST" /\ StartsWith(url, AddPrefix) THEN "add"
        ELSE IF m = "OPTIONS" /\ StartsWith(url, AddPrefix) THEN "options_add"
        ELSE IF m = "OPTIONS" /\ StartsWith(url, NewPrefix) THEN "options_new"
        ELSE IF StartsWith(url, NewPrefix) THEN "new"
        ELSE "deny"

\* the branch of processRequest's if / else-if chain that a request takes
Route(method, url) ==
    LET m == ToUpperCase(method)
    IN  IF m = "GET" /\ StartsWith(url, InfoPrefix) THEN "info"
        ELSE IF m = "OPTIONS" /\ StartsWith(url, InfoPrefix) THEN "options_info"
        ELSE IF m = "PUT" /\ StartsWith(url, ClosePrefix) THEN "close"
        ELSE IF m = "OPTIONS" /\ StartsWith(url, ClosePrefix) THEN "options_close"
        ELSE IF m = "PUT" /\ StartsWith(url, RenegPrefix) THEN "reneg"
        ELSE IF m = "OPTIONS" /\ StartsWith(url, RenegPrefix) THEN "options_reneg"
        ELSE IF m = "POST" /\ StartsWith(url, AddPrefix) THEN "add"
        ELSE IF m = "OPTIONS" /\ StartsWith(url, AddPrefix) THEN "options_add"
        ELSE IF m = "POST" /\ StartsWith(url, NewPrefix) THEN "new"
        ELSE IF m = "OPTIONS" /\ StartsWith(url, NewPrefix) THEN "options_new"
        ELSE "deny"

WriteRoutes == {"close", "reneg", "add", "new"}

PreflightRoutes ==
    {"options_info", "options_close", "options_reneg", "options_add",
     "options_new"}

\* the routes whose branch extracts a session id from the path
SessionRoutes == {"info", "close", "reneg", "add"}

-----------------------------------------------------------------------------
(* The responses the router writes: res.writeHead(status, headers),        *)
(* res.write(text) for each element of body, res.end()                     *)

JsonHeaders ==
    ("Content-Type" :> "application/json")
    @@ ("Access-Control-Allow-Origin" :> "*")

\* the new-session branch reading the property the add-track branch reads
ResultName_newReadsTrack(route) ==
    CASE route = "info" -> "getSessionInformationResponse"
      [] route = "close" -> "closeTrackResponse"
      [] route = "reneg" -> "renegotiateSessionResponse"
      [] route = "add" -> "newTrackResponse"
      [] route = "new" -> "newTrackResponse"

\* the property each branch reads the upstream response from:
\* let { valid, <name>, error } = await callservice.<operation>(...)
ResultName(route) ==
    CASE route = "info" -> "getSessionInformationResponse"
      [] route = "close" -> "closeTrackResponse"
      [] route = "reneg" -> "renegotiateSessionResponse"
      [] route = "add" -> "newTrackResponse"
      [] route = "new" -> "newSessionResponse"

\* writeHead(200, ...); write(JSON.stringify({result, valid, error})); end()
EnvelopeResponse(route, env) ==
    [status |-> 200,
     headers |-> JsonHeaders,
     body |-> <<JSONstringify(Obj(<<
                  [k |-> "result", v |-> GetProp(env, ResultName(route))],
                  [k |-> "valid", v |-> GetProp(env, "valid")],
                  [k |-> "error", v |-> GetProp(env, "error")]>>))>>]

\* the pre-flight answers with the renegotiation branch naming POST
PreflightMethods_renegPost(route) ==
    CASE route = "options_info" -> "OPTIONS, GET"
      [] route = "options_close" -> "OPTIONS, PUT"
      [] route = "options_reneg" -> "OPTIONS, POST"
      [] route = "options_add" -> "OPTIONS, POST"
      [] route = "options_new" -> "OPTIONS, POST"

PreflightMethods(route) ==
    CASE route = "options_info" -> "OPTIONS, GET"
      [] route = "options_close" -> "OPTIONS, PUT"
      [] route = "options_reneg" -> "OPTIONS, PUT"
      [] route = "options_add" -> "OPTIONS, POST"
      [] route = "options_new" -> "OPTIONS, POST"

PreflightResponse(route) ==
    [status |-> 204,
     headers |-> ("Access-Control-Allow-Origin" :> "*")
                 @@ ("Access-Control-Allow-Methods" :> PreflightMethods(route))
                 @@ ("Access-Control-Allow-Headers" :> "Authorization, Content-Type"),
     body |-> <<>>]

DenyResponse ==
    [status |-> 400,
     headers |-> ("Content-Type" :> "application/json"),
     body |-> <<"{\"result\":\"Access Denied\"}">>]

-----------------------------------------------------------------------------
(* The session proxy: CallService *)

ConfigKeys == {"debug", "appID", "appSecret", "callBaseURL"}

DefaultConfig ==
    ("debug" :> Bool(FALSE)) @@ ("appID" :> Str("")) @@ ("appSecret" :> Str(""))
    @@ ("callBaseURL" :> Str("https://rtc.live.cloudflare.com/v1/apps/"))

\* the constructor deriving the base URL before the options are laid over
\* the defaults
CallService_baseOfDefaults(options) ==
    LET config == [k \in ConfigKeys \cup DOMAIN options |->
                      IF k \in DOMAIN options THEN options[k] ELSE DefaultConfig[k]]
    IN  [config |-> config,
         baseURL |-> JsToString(DefaultConfig["callBaseURL"])
                     \o JsToString(DefaultConfig["appID"]) \o "/sessions/"]

\* new CallService(options): the options' own properties laid over the
\* defaults, and the base URL derived from the result
CallService(options) ==
    LET config == [k \in ConfigKeys \cup DOMAIN options |->
                      IF k \in DOMAIN options THEN options[k] ELSE DefaultConfig[k]]
    IN  [config |-> config,
         baseURL |-> JsToString(config["callBaseURL"])
                     \o JsToString(config["appID"]) \o "/sessions/"]

\* the options every branch of processRequest constructs the service with
ServiceOptions(settings) ==
    ("appID" :> Str(settings.AppID)) @@ ("appSecret" :> Str(settings.AppSecret))
    @@ ("callBaseURL" :> Str(settings.CallBaseUrl)) @@ ("debug" :> Bool(TRUE))

\* the headers with the secret alone as the Authorization value
RequestHeaders_bareSecret(svc) ==
    ("Content-type" :> "application/json")
    @@ ("Authorization" :> JsToString(svc.config["appSecret"]))

RequestHeaders(svc) ==
    ("Content-type" :> "application/json")
    @@ ("Authorization" :> "Bearer " \o JsToString(svc.config["appSecret"]))

\* the fetch(url, request) each operation issues
createNewSession(svc, newSessionRequest) ==
    [url |-> svc.baseURL \o "new",
     method |-> "POST",
     headers |-> RequestHeaders(svc),
     body |-> Str(JSONstringify(newSessionRequest))]

addNewTrack(svc, sessionId, newTrackRequest) ==
    [url |-> svc.baseURL \o JsToString(sessionId) \o "/tracks/new",
     method |-> "POST",
     headers |-> RequestHeaders(svc),
     body |-> Str(JSONstringify(newTrackRequest))]

renegotiateSession(svc, sessionId, renegotiateSessionRequest) ==
    [url |-> svc.baseURL \o JsToString(sessionId) \o "/renegotiate",
     method |-> "PUT",
     headers |-> RequestHeaders(svc),
     body |-> Str(JSONstringify(renegotiateSessionRequest))]

\* closeTrack sending its call to the path of addNewTrack
closeTrack_tracksNew(svc, sessionId, closeTrackRequest) ==
    [url |-> svc.baseURL \o JsToString(sessionId) \o "/tracks/new",
     method |-> "PUT",
     headers |-> RequestHeaders(svc),
     body |-> Str(JSONstringify(closeTrackRequest))]

closeTrack(svc, sessionId, closeTrackRequest) ==
    [url |-> svc.baseURL \o JsToString(sessionId) \o "/tracks/close",
     method |-> "PUT",
     headers |-> RequestHeaders(svc),
     body |-> Str(JSONstringify(closeTrackRequest))]

getSessionInformation(svc, sessionId, getSessionInformationRequest) ==
    [url |-> svc.baseURL \o JsToString(sessionId),
     method |-> "GET",
     headers |-> RequestHeaders(svc),
     body |-> Undefined]

\* the operation a route's branch invokes, and the call it issues
Operation(route) ==
    CASE route = "info" -> "getSessionInformation"
      [] route = "close" -> "closeTrack"
      [] route = "reneg" -> "renegotiateSession"
      [] route = "add" -> "addNewTrack"
      [] route = "new" -> "createNewSession"

IssuedCall(route, svc, sessionId, request) ==
    CASE route = "info" -> getSessionInformation(svc, sessionId, request)
      [] route = "close" -> closeTrack(svc, sessionId, request)
      [] route = "reneg" -> renegotiateSession(svc, sessionId, request)
      [] route = "add" -> addNewTrack(svc, sessionId, request)
      [] route = "new" -> createNewSession(svc, request)

\* responseAction taking status 300 for a success
responseAction_upTo300(status) == status >= 200 /\ status <= 300

\* responseAction(response): TRUE when it resolves with the response,
\* FALSE when it rejects with new Error(response.statusText)
responseAction(status) == status >= 200 /\ status < 300

\* the chain handing on a new Error made of the transport error's message
jsonRequest_wrapsError(up) ==
    IF up.kind \in {"transport", "bodyfail"}
    THEN <<[fn |-> "reject", value |-> Err("Error", up.error.message)]>>
    ELSE IF ~(up.status >= 200 /\ up.status < 300)
         THEN <<[fn |-> "reject", value |-> Err("Error", up.statusText)]>>
    ELSE LET data == JSONparse(up.text)
         IN  IF data.ok THEN <<[fn |-> "resolve", value |-> data.val]>>
             ELSE <<[fn |-> "reject",
                     value |-> Err("SyntaxError", "Unexpected token in JSON")]>>

\* the chain without a handler for the rejection of response.json()
jsonRequest_jsonUncaught(up) ==
    IF up.kind \in {"transport", "bodyfail"}
    THEN <<[fn |-> "reject", value |-> up.error]>>
    ELSE IF ~(up.status >= 200 /\ up.status < 300)
         THEN <<[fn |-> "reject", value |-> Err("Error", up.statusText)]>>
    ELSE LET data == JSONparse(up.text)
         IN  IF data.ok THEN <<[fn |-> "resolve", value |-> data.val]>>
             ELSE <<>>

\* the calls of resultAction (resolve) and errorAction (reject) that the
\* chain fetch().then(responseAction).then(jsonResponse).then(resultAction)
\* .catch(errorAction) makes once the upstream outcome `up` is known.  The
\* final catch takes every rejection of the chain: of fetch, of
\* responseAction and of response.json().
jsonRequest(up) ==
    IF up.kind = "transport" THEN <<[fn |-> "reject", value |-> up.error]>>
    ELSE IF ~responseAction(up.status)
         THEN <<[fn |-> "reject", value |-> Err("Error", up.statusText)]>>
    ELSE IF up.kind = "bodyfail" THEN <<[fn |-> "reject", value |-> up.error]>>
    ELSE LET data == JSONparse(up.text)
         IN  IF data.ok THEN <<[fn |-> "resolve", value |-> data.val]>>
             ELSE <<[fn |-> "reject",
                     value |-> Err("SyntaxError", "Unexpected token in JSON")]>>

\* the property under which each operation returns the upstream response
ResponseName(op) ==
    CASE op = "getSessionInformation" -> "getSessionInformationResponse"
      [] op = "closeTrack" -> "closeTrackResponse"
      [] op = "renegotiateSession" -> "renegotiateSessionResponse"
      [] op = "addNewTrack" -> "newTrackResponse"
      [] op = "createNewSession" -> "newSessionResponse"

\* the operation setting the response, too, to the reason of a rejection
Envelope_errorInResponse(op, settle) ==
    IF settle.fn = "resolve"
    THEN Obj(<<[k |-> "valid", v |-> Bool(TRUE)],
               [k |-> ResponseName(op), v |-> settle.value],
               [k |-> "error", v |-> Null]>>)
    ELSE Obj(<<[k |-> "valid", v |-> Bool(FALSE)],
               [k |-> ResponseName(op), v |-> settle.value],
               [k |-> "error", v |-> settle.value]>>)

\* the object an operation returns once its promise is settled,
\* { valid, <name>, error }: Promise.all([p]).then(...) sets valid and the
\* response, .catch(...) sets the error
Envelope(op, settle) ==
    IF settle.fn = "resolve"
    THEN Obj(<<[k |-> "valid", v |-> Bool(TRUE)],
               [k |-> ResponseName(op), v |-> settle.value],
               [k |-> "error", v |-> Null]>>)
    ELSE Obj(<<[k |-> "valid", v |-> Bool(FALSE)],
               [k |-> ResponseName(op), v |-> Null],
               [k |-> "error", v |-> settle.value]>>)

-----------------------------------------------------------------------------
(* Bounds and inputs *)

\* the most 'data' events one request body arrives in
MaxChunks == 3

\* the connections the server can hold
Slots == {"c1", "c2"}

Methods == {"GET", "PUT", "POST", "OPTIONS", "DELETE"}

Urls ==
    {"/api/cf/call/sessions/info/ABC123",
     "/api/cf/call/sessions/info",
     "/api/cf/call/sessions/info/",
     "/api/cf/call/sessions/info/ABC123/tracks?x=1",
     "/api/cf/call/sessions/info?a/b/c/d/e/f/g",
     "/api/cf/call/sessions/info/x/../s2",
     "/api/cf/call/sessions/information/s1",
     "/api/cf/call/sessions/inf",
     "/api/cf/call/sessions/close/s1",
     "/api/cf/call/sessions/close/t1/s1",
     "/api/cf/call/sessions/reneg/s1",
     "/api/cf/call/sessions/add/s1#top",
     "/api/cf/call/sessions/new",
     "/api/cf/call/sessions/new/s1",
     "/api/cf/unknown/path",
     "/"}

\* the pieces a request body arrives in
Chunks == {"{\"a\":", "1", "}", "1e999"}

\* err.message of a request stream error
RequestErrors == {"aborted"}

\* the settings cfappsettings.json can hold
SettingsSet ==
    {[AppID |-> "app1", AppSecret |-> "secretA",
      CallBaseUrl |-> "https://rtc.live.cloudflare.com/v1/apps/"],
     [AppID |-> "app2", AppSecret |-> "secretB",
      CallBaseUrl |-> "https://calls.example/v1/apps/"]}

\* what the upstream service can answer
Statuses == {199, 200, 204, 299, 300, 404}

StatusTexts == {"OK", "Not Found", ""}

UpstreamTexts == {"{\"sessionId\":\"s1\"}", "null", "", "<html>", "[1,2]"}

\* the reasons fetch() rejects with when the connection fails
TransportErrors == {Err("TypeError", "fetch failed")}

\* the reasons response.json() rejects with when the body breaks off
BodyErrors == {Err("TypeError", "terminated")}

\* the requests, body pieces and upstream answers of two requests at a time
ConcRequests ==
    {<<"GET", "/api/cf/call/sessions/info/ABC123">>,
     <<"PUT", "/api/cf/call/sessions/close/s1">>,
     <<"POST", "/api/cf/call/sessions/new">>,
     <<"OPTIONS", "/api/cf/call/sessions/new">>}

ConcChunks == {"1"}

ConcStatuses == {200, 404}

ConcTexts == {"{\"sessionId\":\"s1\"}", "<html>"}

NoUpstream ==
    [kind |-> "none", status |-> 0, statusText |-> "", text |-> "", error |-> Null]

NoService == [config |-> <<>>, baseURL |-> ""]

-----------------------------------------------------------------------------
(* State *)

VARIABLES
    appSettings,   \* ApplicationServer.appSettings
    running,       \* the node process has not exited
    conns,         \* the connections requests arrive on
    pc,            \* per connection: where its request stands
    req,           \* per connection: the request's method and url
    authorization, \* per connection: the request's Authorization header
    route,         \* per connection: the branch processRequest took
    sessionId,     \* per connection: the branch's sessionId
    callservice,   \* per connection: the branch's CallService instance
    arrived,       \* per connection: the events the request stream emitted
    body,          \* per connection: processPostRequest's body array
    errorResult,   \* per connection: processPostRequest's errorResult
    invoked,       \* per connection: the proxy operations invoked
    calls,         \* per connection: the fetch() calls issued
    upstream,      \* per connection: what the upstream answered
    settled,       \* per connection: calls of the promise's resolve / reject
    envelope,      \* per connection: the envelopes the operations returned
    result,        \* per connection: what processRequestAsync returned
    res,           \* per connection: the responses written and ended
    cacheKeys,     \* the verifier's process-wide key set, cacheKeys
    jwksRequests,  \* the verifier's key requests, http.request(options)
    vpc,           \* per invocation of the verifier: where it stands
    event,         \* per invocation: the handler's event
    publicKeys,    \* per invocation: getPublicKeys' publicKeys
    verifyResult,  \* per invocation: the result the handler returned
    config,        \* WebSocketClientBase.config
    closed,        \* WebSocketClientBase.closed
    webSocket,     \* WebSocketClientBase.webSocket
    sockets,       \* the readyState of each WebSocket created, in order
    subscribed,    \* the signallingEvent* callbacks that are assigned
    heard,         \* the last event a callback was called with
    called         \* the calls of open() and close() made, in order

\* the state of the gateway
gatewayVars ==
    <<appSettings, running, conns, pc, req, authorization, route, sessionId,
      callservice, arrived, body, errorResult, invoked, calls, upstream,
      settled, envelope, result, res>>

\* the state of the token verifier
verifierVars ==
    <<cacheKeys, jwksRequests, vpc, event, publicKeys, verifyResult>>

\* the state of the signalling client
clientVars == <<config, closed, webSocket, sockets, subscribed, heard, called>>

vars == <<gatewayVars, verifierVars, clientVars>>

\* no event heard yet
NoHeard == [message |-> "", socket |-> 0, newest |-> 0]

\* a process in which no signalling client is constructed
ClientInit ==
    /\ config = Undefined
    /\ closed = TRUE
    /\ webSocket = Null
    /\ sockets = <<>>
    /\ subscribed = {}
    /\ heard = NoHeard
    /\ called = <<>>

\* the invocations of the verifier's handler that one process serves
Invocations == {"h1", "h2"}

NoEvent == [token |-> Undefined, cognitoIdpHost |-> "", cognitoPoolId |-> ""]

\* the verifier as its module is loaded: let cacheKeys, and no invocation
VerifierInit ==
    /\ cacheKeys = Undefined
    /\ jwksRequests = <<>>
    /\ vpc = [h \in Invocations |-> "idle"]
    /\ event = [h \in Invocations |-> NoEvent]
    /\ publicKeys = [h \in Invocations |-> Undefined]
    /\ verifyResult = [h \in Invocations |-> Undefined]

\* cfserver's bootstrap: the settings are read and the server is constructed
Init ==
    /\ appSettings \in SettingsSet
    /\ running = TRUE
    /\ conns = {"c1"}
    /\ pc = [s \in Slots |-> "idle"]
    /\ req = [s \in Slots |-> [method |-> "", url |-> ""]]
    /\ authorization = [s \in Slots |-> Undefined]
    /\ route = [s \in Slots |-> "none"]
    /\ sessionId = [s \in Slots |-> Undefined]
    /\ callservice = [s \in Slots |-> NoService]
    /\ arrived = [s \in Slots |-> <<>>]
    /\ body = [s \in Slots |-> <<>>]
    /\ errorResult = [s \in Slots |-> ""]
    /\ invoked = [s \in Slots |-> <<>>]
    /\ calls = [s \in Slots |-> <<>>]
    /\ upstream = [s \in Slots |-> NoUpstream]
    /\ settled = [s \in Slots |-> [resolve |-> 0, reject |-> 0]]
    /\ envelope = [s \in Slots |-> <<>>]
    /\ result = [s \in Slots |-> Undefined]
    /\ res = [s \in Slots |-> <<>>]
    /\ VerifierInit
    /\ ClientInit

-----------------------------------------------------------------------------
(* Actions *)

\* an operation is invoked: it runs up to its fetch() call
Invoke(s, r, svc, sid, request) ==
    /\ invoked' = [invoked EXCEPT ![s] =
                      Append(@, [op |-> Operation(r), sessionId |-> sid,
                                 request |-> request])]
    /\ calls' = [calls EXCEPT ![s] = Append(@, IssuedCall(r, svc, sid, request))]

\* processRequestAsync handing on the error of processRequest: the value
\* it returns for a rejection is the error, as a rejection of its own
processRequestAsync_rethrows(settle) ==
    IF settle = "fulfilled" THEN Bool(TRUE)
    ELSE Err("TypeError", "Cannot read properties of undefined")

\* what processRequestAsync returns once the promise of processRequest is
\* settled: fulfilled, resolve(true) and the .then sets result = true;
\* rejected, reject(e.message) and the .catch sets result = false
processRequestAsync(settle) ==
    IF settle = "fulfilled" THEN Bool(TRUE) ELSE Bool(FALSE)

\* the router denying every request that comes without an Authorization
\* header
processRequest_requiresAuth(s, method, url, auth) ==
    LET r == IF auth = Undefined THEN "deny" ELSE Route(method, url)
        sid == IF r \in SessionRoutes THEN SessionIdOf(url) ELSE Undefined
        svc == CallService(ServiceOptions(appSettings))
    IN  /\ running
        /\ s \in conns
        /\ pc[s] = "idle"
        /\ req' = [req EXCEPT ![s] = [method |-> method, url |-> url]]
        /\ authorization' = [authorization EXCEPT ![s] = auth]
        /\ IF appSettings = Undefined
           THEN /\ pc' = [pc EXCEPT ![s] = "threw"]
                /\ result' = [result EXCEPT ![s] = processRequestAsync("rejected")]
                /\ UNCHANGED <<route, sessionId, callservice, invoked, calls, res>>
           ELSE IF r = "info"
           THEN /\ route' = [route EXCEPT ![s] = r]
                /\ sessionId' = [sessionId EXCEPT ![s] = sid]
                /\ callservice' = [callservice EXCEPT ![s] = svc]
                /\ Invoke(s, r, svc, sid, Obj(<<>>))
                /\ pc' = [pc EXCEPT ![s] = "fetching"]
                /\ UNCHANGED <<res, result>>
           ELSE IF r \in WriteRoutes
           THEN /\ route' = [route EXCEPT ![s] = r]
                /\ sessionId' = [sessionId EXCEPT ![s] = sid]
                /\ callservice' = [callservice EXCEPT ![s] = svc]
                /\ pc' = [pc EXCEPT ![s] = "reading"]
                /\ result' = [result EXCEPT ![s] = processRequestAsync("fulfilled")]
                /\ UNCHANGED <<invoked, calls, res>>
           ELSE IF r \in PreflightRoutes
           THEN /\ route' = [route EXCEPT ![s] = r]
                /\ res' = [res EXCEPT ![s] = Append(@, PreflightResponse(r))]
                /\ pc' = [pc EXCEPT ![s] = "done"]
                /\ result' = [result EXCEPT ![s] = processRequestAsync("fulfilled")]
                /\ UNCHANGED <<sessionId, callservice, invoked, calls>>
           ELSE /\ route' = [route EXCEPT ![s] = r]
                /\ res' = [res EXCEPT ![s] = Append(@, DenyResponse)]
                /\ pc' = [pc EXCEPT ![s] = "done"]
                /\ result' = [result EXCEPT ![s] = processRequestAsync("fulfilled")]
                /\ UNCHANGED <<sessionId, callservice, invoked, calls>>
        /\ UNCHANGED <<clientVars, verifierVars, appSettings, running, conns, arrived, body, errorResult,
                       upstream, settled, envelope>>

\* processRequest(req, res), called by processRequestAsync, up to its first
\* suspension.  The request comes with its Authorization header, `auth`
\* (undefined when it has none), which no branch reads.  Reading
\* this.appSettings.AppID throws when the server was constructed without
\* appSettings.  The branches of the write routes, of the pre-flights and of
\* the denial return without a suspension, and processRequestAsync returns
\* with them; the branch of the info route awaits its operation.
processRequest(s, method, url, auth) ==
    LET r == Route(method, url)
        sid == IF r \in SessionRoutes THEN SessionIdOf(url) ELSE Undefined
        svc == CallService(ServiceOptions(appSettings))
    IN  /\ running
        /\ s \in conns
        /\ pc[s] = "idle"
        /\ req' = [req EXCEPT ![s] = [method |-> method, url |-> url]]
        /\ authorization' = [authorization EXCEPT ![s] = auth]
        /\ IF appSettings = Undefined
           THEN /\ pc' = [pc EXCEPT ![s] = "threw"]
                /\ result' = [result EXCEPT ![s] = processRequestAsync("rejected")]
                /\ UNCHANGED <<route, sessionId, callservice, invoked, calls, res>>
           ELSE IF r = "info"
           THEN /\ route' = [route EXCEPT ![s] = r]
                /\ sessionId' = [sessionId EXCEPT ![s] = sid]
                /\ callservice' = [callservice EXCEPT ![s] = svc]
                /\ Invoke(s, r, svc, sid, Obj(<<>>))
                /\ pc' = [pc EXCEPT ![s] = "fetching"]
                /\ UNCHANGED <<res, result>>
           ELSE IF r \in WriteRoutes
           THEN /\ route' = [route EXCEPT ![s] = r]
                /\ sessionId' = [sessionId EXCEPT ![s] = sid]
                /\ callservice' = [callservice EXCEPT ![s] = svc]
                /\ pc' = [pc EXCEPT ![s] = "reading"]
                /\ result' = [result EXCEPT ![s] = processRequestAsync("fulfilled")]
                /\ UNCHANGED <<invoked, calls, res>>
           ELSE IF r \in PreflightRoutes
           THEN /\ route' = [route EXCEPT ![s] = r]
                /\ res' = [res EXCEPT ![s] = Append(@, PreflightResponse(r))]
                /\ pc' = [pc EXCEPT ![s] = "done"]
                /\ result' = [result EXCEPT ![s] = processRequestAsync("fulfilled")]
                /\ UNCHANGED <<sessionId, callservice, invoked, calls>>
           ELSE /\ route' = [route EXCEPT ![s] = r]
                /\ res' = [res EXCEPT ![s] = Append(@, DenyResponse)]
                /\ pc' = [pc EXCEPT ![s] = "done"]
                /\ result' = [result EXCEPT ![s] = processRequestAsync("fulfilled")]
                /\ UNCHANGED <<sessionId, callservice, invoked, calls>>
        /\ UNCHANGED <<clientVars, verifierVars, appSettings, running, conns, arrived, body, errorResult,
                       upstream, settled, envelope>>

\* an event of the request stream: 'data' with its chunk, 'error' with the
\* error's message, 'end'
Emitted(ev, data) == [ev |-> ev, data |-> data]

\* the 'data' handler calling back as soon as the chunks so far are a JSON text
OnData_forwardsEarly(s, chunk) ==
    LET parsed == JSONparse(Join(Append(body[s], chunk), ""))
    IN  /\ running
        /\ pc[s] = "reading"
        /\ Len(body[s]) < MaxChunks
        /\ arrived' = [arrived EXCEPT ![s] = Append(@, Emitted("data", chunk))]
        /\ body' = [body EXCEPT ![s] = Append(@, chunk)]
        /\ IF parsed.ok
           THEN /\ Invoke(s, route[s], callservice[s], sessionId[s], parsed.val)
                /\ pc' = [pc EXCEPT ![s] = "fetching"]
           ELSE UNCHANGED <<pc, invoked, calls>>
        /\ UNCHANGED <<clientVars, verifierVars, appSettings, running, conns, req, authorization, route, sessionId,
                       callservice, errorResult, upstream, settled, envelope, result, res>>

\* the body array kept on the server, one for all requests, instead of in
\* processPostRequest
OnData_sharedBody(s, chunk) ==
    /\ running
    /\ pc[s] = "reading"
    /\ Len(body[s]) < MaxChunks
    /\ arrived' = [arrived EXCEPT ![s] = Append(@, Emitted("data", chunk))]
    /\ body' = [t \in Slots |->
                   IF t = s \/ pc[t] = "reading" THEN Append(body[t], chunk)
                   ELSE body[t]]
    /\ UNCHANGED <<clientVars, verifierVars, appSettings, running, conns, pc, req, authorization, route, sessionId,
                   callservice, errorResult, invoked, calls, upstream, settled,
                   envelope, result, res>>

\* req.on('data'): the chunk is pushed
OnData(s, chunk) ==
    /\ running
    /\ pc[s] = "reading"
    /\ Len(body[s]) < MaxChunks
    /\ arrived' = [arrived EXCEPT ![s] = Append(@, Emitted("data", chunk))]
    /\ body' = [body EXCEPT ![s] = Append(@, chunk)]
    /\ UNCHANGED <<clientVars, verifierVars, appSettings, running, conns, pc, req, authorization, route, sessionId,
                   callservice, errorResult, invoked, calls, upstream, settled,
                   envelope, result, res>>

\* the 'error' handler throwing away the chunks received so far
OnError_dropsBody(s, message) ==
    /\ running
    /\ pc[s] = "reading"
    /\ \A i \in 1..Len(arrived[s]) : arrived[s][i].ev # "error"
    /\ arrived' = [arrived EXCEPT ![s] = Append(@, Emitted("error", message))]
    /\ errorResult' = [errorResult EXCEPT ![s] = message]
    /\ body' = [body EXCEPT ![s] = <<>>]
    /\ UNCHANGED <<clientVars, verifierVars, appSettings, running, conns, pc, req, authorization, route, sessionId,
                   callservice, invoked, calls, upstream, settled, envelope, result, res>>

\* req.on('error'): the message is recorded.  A stream emits 'error' once
\* at most; the handler leaves the 'data' and 'end' handlers in place.
OnError(s, message) ==
    /\ running
    /\ pc[s] = "reading"
    /\ \A i \in 1..Len(arrived[s]) : arrived[s][i].ev # "error"
    /\ arrived' = [arrived EXCEPT ![s] = Append(@, Emitted("error", message))]
    /\ errorResult' = [errorResult EXCEPT ![s] = message]
    /\ UNCHANGED <<clientVars, verifierVars, appSettings, running, conns, pc, req, authorization, route, sessionId,
                   callservice, body, invoked, calls, upstream, settled,
                   envelope, result, res>>

\* the payload made of the first chunk alone
Payload_firstChunk(chunks) == IF chunks = <<>> THEN "" ELSE chunks[1]

\* Buffer.concat(body).toString()
Payload(chunks) == Join(chunks, "")

\* req.on('end'): callback(payload).  JSON.parse(payload) throws inside the
\* async callback when the payload is no JSON: the promise the callback
\* returns is rejected and nothing handles it, which ends the process unless
\* node runs with unhandled rejections set to warn.
OnEnd(s) ==
    LET parsed == JSONparse(Payload(body[s]))
    IN  /\ running
        /\ pc[s] = "reading"
        /\ arrived' = [arrived EXCEPT ![s] = Append(@, Emitted("end", ""))]
        /\ IF parsed.ok
           THEN /\ Invoke(s, route[s], callservice[s], sessionId[s], parsed.val)
                /\ pc' = [pc EXCEPT ![s] = "fetching"]
                /\ UNCHANGED running
           ELSE /\ pc' = [pc EXCEPT ![s] = "faulted"]
                /\ running' \in BOOLEAN
                /\ UNCHANGED <<invoked, calls>>
        /\ UNCHANGED <<clientVars, verifierVars, appSettings, conns, req, authorization, route, sessionId, callservice,
                       body, errorResult, upstream, settled, envelope, result, res>>

\* the operations numbering their envelopes: each envelope carries the
\* count of the envelopes the server returned before it
Finish_numbered(s, up) ==
    \E made \in {jsonRequest(up)} :
        /\ upstream' = [upstream EXCEPT ![s] = up]
        /\ settled' = [settled EXCEPT ![s] =
               [fn \in {"resolve", "reject"} |->
                   @[fn] + Cardinality({i \in 1..Len(made) : made[i].fn = fn})]]
        /\ IF made = <<>>
           THEN /\ pc' = [pc EXCEPT ![s] = "pending"]
                /\ UNCHANGED <<envelope, result, res>>
           ELSE \E env \in {Obj(SetMember(
                                Envelope(invoked[s][Len(invoked[s])].op, made[1]).v,
                                "seq",
                                Num(Cardinality({t \in Slots : envelope[t] # <<>>}))))} :
                    /\ envelope' = [envelope EXCEPT ![s] = Append(@, env)]
                    /\ res' = [res EXCEPT ![s] =
                                  Append(@, EnvelopeResponse(route[s], env))]
                    /\ pc' = [pc EXCEPT ![s] = "done"]
                    /\ result' = [result EXCEPT ![s] =
                                     IF route[s] = "info"
                                     THEN processRequestAsync("fulfilled")
                                     ELSE @]

\* the branch echoing the headers of its upstream call in its response
Finish_echoesCallHeaders(s, up) ==
    \E made \in {jsonRequest(up)} :
        /\ upstream' = [upstream EXCEPT ![s] = up]
        /\ settled' = [settled EXCEPT ![s] =
               [fn \in {"resolve", "reject"} |->
                   @[fn] + Cardinality({i \in 1..Len(made) : made[i].fn = fn})]]
        /\ IF made = <<>>
           THEN /\ pc' = [pc EXCEPT ![s] = "pending"]
                /\ UNCHANGED <<envelope, result, res>>
           ELSE \E env \in {Envelope(invoked[s][Len(invoked[s])].op, made[1])} :
                    /\ envelope' = [envelope EXCEPT ![s] = Append(@, env)]
                    /\ res' = [res EXCEPT ![s] =
                                  Append(@, [EnvelopeResponse(route[s], env)
                                             EXCEPT !.headers =
                                                 @ @@ calls[s][1].headers])]
                    /\ pc' = [pc EXCEPT ![s] = "done"]
                    /\ result' = [result EXCEPT ![s] =
                                     IF route[s] = "info"
                                     THEN processRequestAsync("fulfilled")
                                     ELSE @]

\* the upstream outcome is known: the chain calls resolve or reject, the
\* first call settles the operation's promise, the operation returns its
\* envelope and the branch that awaited it writes the response.  A promise
\* nobody settles leaves the operation pending.
Finish(s, up) ==
    \E made \in {jsonRequest(up)} :
        /\ upstream' = [upstream EXCEPT ![s] = up]
        /\ settled' = [settled EXCEPT ![s] =
               [fn \in {"resolve", "reject"} |->
                   @[fn] + Cardinality({i \in 1..Len(made) : made[i].fn = fn})]]
        /\ IF made = <<>>
           THEN /\ pc' = [pc EXCEPT ![s] = "pending"]
                /\ UNCHANGED <<envelope, result, res>>
           ELSE \E env \in {Envelope(invoked[s][Len(invoked[s])].op, made[1])} :
                    /\ envelope' = [envelope EXCEPT ![s] = Append(@, env)]
                    /\ res' = [res EXCEPT ![s] =
                                  Append(@, EnvelopeResponse(route[s], env))]
                    /\ pc' = [pc EXCEPT ![s] = "done"]
                    /\ result' = [result EXCEPT ![s] =
                                     IF route[s] = "info"
                                     THEN processRequestAsync("fulfilled")
                                     ELSE @]

\* fetch() rejects: the connection could not be made or broke
FetchRejects(s, err) ==
    /\ running
    /\ pc[s] = "fetching"
    /\ Finish(s, [NoUpstream EXCEPT !.kind = "transport", !.error = err])
    /\ UNCHANGED <<clientVars, verifierVars, appSettings, running, conns, req, authorization, route, sessionId,
                   callservice, arrived, body, errorResult, invoked, calls>>

\* fetch() resolves with the response's status line and headers;
\* responseAction either rejects or hands the response to response.json()
FetchResolves(s, status, statusText) ==
    LET up == [NoUpstream EXCEPT !.kind = "headers", !.status = status,
                                 !.statusText = statusText]
    IN  /\ running
        /\ pc[s] = "fetching"
        /\ IF responseAction(status)
           THEN /\ upstream' = [upstream EXCEPT ![s] = up]
                /\ pc' = [pc EXCEPT ![s] = "streaming"]
                /\ UNCHANGED <<settled, envelope, result, res>>
           ELSE Finish(s, up)
        /\ UNCHANGED <<clientVars, verifierVars, appSettings, running, conns, req, authorization, route, sessionId,
                       callservice, arrived, body, errorResult, invoked, calls>>

\* response.json(): the body has arrived and is parsed
BodyArrives(s, text) ==
    /\ running
    /\ pc[s] = "streaming"
    /\ Finish(s, [upstream[s] EXCEPT !.kind = "response", !.text = text])
    /\ UNCHANGED <<clientVars, verifierVars, appSettings, running, conns, req, authorization, route, sessionId,
                   callservice, arrived, body, errorResult, invoked, calls>>

\* response.json(): the connection broke while the body was read
BodyFails(s, err) ==
    /\ running
    /\ pc[s] = "streaming"
    /\ Finish(s, [upstream[s] EXCEPT !.kind = "bodyfail", !.error = err])
    /\ UNCHANGED <<clientVars, verifierVars, appSettings, running, conns, req, authorization, route, sessionId,
                   callservice, arrived, body, errorResult, invoked, calls>>

Next ==
    \/ \E s \in Slots, method \in Methods, url \in Urls :
           processRequest(s, method, url, Undefined)
    \/ \E s \in Slots, chunk \in Chunks : OnData(s, chunk)
    \/ \E s \in Slots, message \in RequestErrors : OnError(s, message)
    \/ \E s \in Slots : OnEnd(s)
    \/ \E s \in Slots, err \in TransportErrors : FetchRejects(s, err)
    \/ \E s \in Slots, status \in Statuses, statusText \in StatusTexts :
           FetchResolves(s, status, statusText)
    \/ \E s \in Slots, text \in UpstreamTexts : BodyArrives(s, text)
    \/ \E s \in Slots, err \in BodyErrors : BodyFails(s, err)

Spec == Init /\ [][Next]_vars

\* two requests at a time: the server holds two connections, and node runs
\* the handlers of both in any order
ConcInit ==
    /\ appSettings \in {settings \in SettingsSet : settings.AppID = "app1"}
    /\ running = TRUE
    /\ conns = Slots
    /\ pc = [s \in Slots |-> "idle"]
    /\ req = [s \in Slots |-> [method |-> "", url |-> ""]]
    /\ authorization = [s \in Slots |-> Undefined]
    /\ route = [s \in Slots |-> "none"]
    /\ sessionId = [s \in Slots |-> Undefined]
    /\ callservice = [s \in Slots |-> NoService]
    /\ arrived = [s \in Slots |-> <<>>]
    /\ body = [s \in Slots |-> <<>>]
    /\ errorResult = [s \in Slots |-> ""]
    /\ invoked = [s \in Slots |-> <<>>]
    /\ calls = [s \in Slots |-> <<>>]
    /\ upstream = [s \in Slots |-> NoUpstream]
    /\ settled = [s \in Slots |-> [resolve |-> 0, reject |-> 0]]
    /\ envelope = [s \in Slots |-> <<>>]
    /\ result = [s \in Slots |-> Undefined]
    /\ res = [s \in Slots |-> <<>>]
    /\ VerifierInit
    /\ ClientInit

ConcNext ==
    \/ \E s \in Slots, r \in ConcRequests : processRequest(s, r[1], r[2], Undefined)
    \/ \E s \in Slots, chunk \in ConcChunks : OnData(s, chunk)
    \/ \E s \in Slots, message \in RequestErrors : OnError(s, message)
    \/ \E s \in Slots : OnEnd(s)
    \/ \E s \in Slots, err \in TransportErrors : FetchRejects(s, err)
    \/ \E s \in Slots, status \in ConcStatuses : FetchResolves(s, status, "")
    \/ \E s \in Slots, text \in ConcTexts : BodyArrives(s, text)
    \/ \E s \in Slots, err \in BodyErrors : BodyFails(s, err)

ConcSpec == ConcInit /\ [][ConcNext]_vars

\* the upstream call of a connection comes to an end: fetch() settles, and
\* the body of a response that has begun ends or breaks off
UpstreamSettles(s) ==
    \/ \E err \in TransportErrors : FetchRejects(s, err)
    \/ \E err \in BodyErrors : BodyFails(s, err)
    \/ \E status \in Statuses, statusText \in StatusTexts :
           FetchResolves(s, status, statusText)
    \/ \E text \in UpstreamTexts : BodyArrives(s, text)

\* the steps of requests whose upstream calls meet every upstream outcome
FairNext ==
    \/ \E s \in Slots, r \in ConcRequests : processRequest(s, r[1], r[2], Undefined)
    \/ \E s \in Slots, chunk \in ConcChunks : OnData(s, chunk)
    \/ \E s \in Slots, message \in RequestErrors : OnError(s, message)
    \/ \E s \in Slots : OnEnd(s)
    \/ \E s \in Slots, err \in TransportErrors : FetchRejects(s, err)
    \/ \E s \in Slots, status \in Statuses, statusText \in StatusTexts :
           FetchResolves(s, status, statusText)
    \/ \E s \in Slots, text \in UpstreamTexts : BodyArrives(s, text)
    \/ \E s \in Slots, err \in BodyErrors : BodyFails(s, err)

\* fetch() settles every call: the runtime bounds the wait for the
\* connection, for the response headers and for the next piece of the body
FairSpec ==
    Init /\ [][FairNext]_vars /\ \A s \in Slots : WF_vars(UpstreamSettles(s))

-----------------------------------------------------------------------------
(* The routing table and the operation table as the specification states   *)
(* them, for the properties below                                          *)

\* (method, path prefix, operation) of the five lifecycle routes
TableRows ==
    {<<"GET", "/api/cf/call/sessions/info", "info">>,
     <<"PUT", "/api/cf/call/sessions/close", "close">>,
     <<"PUT", "/api/cf/call/sessions/reneg", "reneg">>,
     <<"POST", "/api/cf/call/sessions/add", "add">>,
     <<"POST", "/api/cf/call/sessions/new", "new">>}

\* the request on connection s has been received
Received(s) == s \in conns /\ pc[s] # "idle"

\* the request on connection s matches the row of a lifecycle operation
OnRow(s, row) ==
    /\ Received(s)
    /\ req[s].method = row[1]
    /\ StartsWith(req[s].url, row[2])

\* the request on connection s is a pre-flight of the row's prefix
PreflightOf(s, row) ==
    /\ Received(s)
    /\ req[s].method = "OPTIONS"
    /\ StartsWith(req[s].url, row[2])

\* {base} = callBaseUrl + appId + "/sessions/"
TableBase == appSettings.CallBaseUrl \o appSettings.AppID \o "/sessions/"

\* the upstream method and URL the operation table gives for a row
TableCall(row, sid) ==
    CASE row[3] = "info" -> <<"GET", TableBase \o sid>>
      [] row[3] = "close" -> <<"PUT", TableBase \o sid \o "/tracks/close">>
      [] row[3] = "reneg" -> <<"PUT", TableBase \o sid \o "/renegotiate">>
      [] row[3] = "add" -> <<"POST", TableBase \o sid \o "/tracks/new">>
      [] row[3] = "new" -> <<"POST", TableBase \o "new">>

\* the request on connection s has come to its end
Finished(s) == s \in conns /\ pc[s] \in {"done", "faulted"}

-----------------------------------------------------------------------------
(* Properties *)

\* C1: for every request the router has handled, whatever its method, path,
\* body and upstream outcome, exactly one response has been written: never
\* more than one at any time, and not zero once the request has come to
\* its end.
C1_ExactlyOneResponse ==
    \A s \in conns :
        /\ Len(res[s]) <= 1
        /\ Finished(s) => Len(res[s]) = 1

\* C2: on every matched non-OPTIONS route, the upstream call that is issued
\* has the method and the URL of the operation table, with {base} =
\* callBaseUrl + appId + "/sessions/" and the session id extracted from the
\* inbound path; a request that waits for its upstream answer has issued
\* that call.
C2_UpstreamCallMatchesTable ==
    \A s \in conns : \A row \in TableRows :
        OnRow(s, row) =>
            /\ \A i \in 1..Len(calls[s]) :
                   <<calls[s][i].method, calls[s][i].url>>
                       = TableCall(row, JsToString(sessionId[s]))
            /\ pc[s] \in {"fetching", "streaming", "done"} => Len(calls[s]) >= 1

\* C2 witness: PUT /api/cf/call/sessions/close/s1 has issued
\* PUT {base}s1/tracks/close, and POST .../new has issued POST {base}new
C2_Witness ==
    /\ appSettings.AppID = "app1"
    /\ req["c1"] = [method |-> "PUT", url |-> "/api/cf/call/sessions/close/s1"]
    /\ Len(calls["c1"]) = 1
    /\ calls["c1"][1].method = "PUT"
    /\ calls["c1"][1].url
           = "https://rtc.live.cloudflare.com/v1/apps/app1/sessions/s1/tracks/close"

\* the upstream bodies that are JSON texts
JsonTexts == {"{\"sessionId\":\"s1\"}", "null", "[1,2]"}

\* the upstream call of connection s met a transport failure
TransportFailed(s) == upstream[s].kind \in {"transport", "bodyfail"}

Is2xx(status) == status \in 200..299

\* C3: the envelope an operation returns has valid = true if and only if
\* the upstream call met no transport failure, answered with a status in
\* [200,300) and its body parsed as JSON; in every other upstream outcome
\* valid = false.
C3_ValidIffUpstreamSuccess ==
    \A s \in conns : \A i \in 1..Len(envelope[s]) :
        /\ GetProp(envelope[s][i], "valid") \in {Bool(TRUE), Bool(FALSE)}
        /\ GetProp(envelope[s][i], "valid") = Bool(TRUE)
               <=> /\ ~TransportFailed(s)
                   /\ Is2xx(upstream[s].status)
                   /\ upstream[s].kind = "response"
                   /\ upstream[s].text \in JsonTexts

\* C3 witness: createNewSession has returned valid = true with the parsed
\* body for the answer 200 {"sessionId":"s1"}
C3_Witness ==
    /\ route["c1"] = "new"
    /\ upstream["c1"].status = 200
    /\ upstream["c1"].text = "{\"sessionId\":\"s1\"}"
    /\ envelope["c1"]
           = <<Obj(<<[k |-> "valid", v |-> Bool(TRUE)],
                     [k |-> "newSessionResponse",
                      v |-> Obj(<<[k |-> "sessionId", v |-> Str("s1")]>>)],
                     [k |-> "error", v |-> Null]>>)>>

\* the member names of a JSON text that is an object, {} for any other text
MemberNames(text) ==
    LET p == JSONparse(text)
    IN  IF p.ok /\ p.val.t = "obj"
        THEN {p.val.v[j].k : j \in 1..Len(p.val.v)}
        ELSE {}

\* C4: every response written on a matched non-OPTIONS route has status
\* 200 and a JSON body with the fields result, valid and error, whatever
\* the upstream outcome; once the operation has returned, that response
\* is written.
C4_MatchedRouteAnswers200 ==
    \A s \in conns : \A row \in TableRows :
        OnRow(s, row) =>
            /\ \A i \in 1..Len(res[s]) :
                   /\ res[s][i].status = 200
                   /\ Len(res[s][i].body) = 1
                   /\ MemberNames(res[s][i].body[1]) = {"result", "valid", "error"}
            /\ Len(envelope[s]) = 1 => Len(res[s]) = 1

\* C4 witness: the upstream answered 404 on the new-session route and the
\* response written has status 200 and the three fields
C4_Witness ==
    /\ route["c1"] = "new"
    /\ upstream["c1"].status = 404
    /\ Len(res["c1"]) = 1
    /\ res["c1"][1].status = 200
    /\ res["c1"][1].body = <<"{\"result\":null,\"valid\":false,\"error\":{}}">>

\* the request on connection s matches no row of the routing table
Unmatched(s) ==
    /\ Received(s)
    /\ \A row \in TableRows : ~OnRow(s, row) /\ ~PreflightOf(s, row)

\* C5: a request whose method and path match no row of the routing table,
\* a known prefix with a method the table does not list included, is
\* answered with status 400, Content-Type application/json and the body
\* {"result":"Access Denied"}, and no proxy operation is invoked for it.
C5_UnmatchedDenied ==
    \A s \in conns :
        Unmatched(s) =>
            /\ Len(res[s]) = 1
            /\ res[s][1].status = 400
            /\ "Content-Type" \in DOMAIN res[s][1].headers
            /\ res[s][1].headers["Content-Type"] = "application/json"
            /\ res[s][1].body = <<"{\"result\":\"Access Denied\"}">>
            /\ invoked[s] = <<>>
            /\ calls[s] = <<>>

\* C5 witness: PUT on the new-session prefix, which the table lists for
\* POST and OPTIONS alone, has been answered
C5_Witness ==
    /\ req["c1"] = [method |-> "PUT", url |-> "/api/cf/call/sessions/new"]
    /\ Len(res["c1"]) = 1
    /\ res["c1"][1].status = 400

\* C6: an OPTIONS request on a known prefix is answered with status 204, no
\* body, Access-Control-Allow-Origin: *, Access-Control-Allow-Headers:
\* Authorization, Content-Type, and Access-Control-Allow-Methods naming
\* OPTIONS and the one method the routing table gives the prefix.
C6_PreflightAnswer ==
    \A s \in conns : \A row \in TableRows :
        PreflightOf(s, row) =>
            /\ Len(res[s]) = 1
            /\ res[s][1].status = 204
            /\ res[s][1].body = <<>>
            /\ {"Access-Control-Allow-Origin", "Access-Control-Allow-Methods",
                "Access-Control-Allow-Headers"} \subseteq DOMAIN res[s][1].headers
            /\ res[s][1].headers["Access-Control-Allow-Origin"] = "*"
            /\ res[s][1].headers["Access-Control-Allow-Headers"]
                   = "Authorization, Content-Type"
            /\ res[s][1].headers["Access-Control-Allow-Methods"]
                   = "OPTIONS, " \o row[1]

\* C6 witness: OPTIONS on the renegotiation prefix has been answered with
\* the methods OPTIONS, PUT
C6_Witness ==
    /\ req["c1"] = [method |-> "OPTIONS", url |-> "/api/cf/call/sessions/reneg/s1"]
    /\ Len(res["c1"]) = 1
    /\ res["c1"][1].headers["Access-Control-Allow-Methods"] = "OPTIONS, PUT"

\* the value of the member of an envelope that holds the upstream response
ResponseOf(env) ==
    env.v[CHOOSE j \in 1..Len(env.v) : env.v[j].k \notin {"valid", "error"}].v

\* the upstream of connection s answered with a status outside [200,300)
RefusedUpstream(s) ==
    /\ upstream[s].kind = "headers"
    /\ ~Is2xx(upstream[s].status)

\* C7: when the upstream answers with a status outside [200,300) and the
\* reason phrase R, the operation returns the envelope {valid: false,
\* response: null, error: R}, error being the string R itself.
C7_ErrorIsStatusText ==
    \A s \in conns : \A i \in 1..Len(envelope[s]) :
        RefusedUpstream(s) =>
            /\ GetProp(envelope[s][i], "valid") = Bool(FALSE)
            /\ ResponseOf(envelope[s][i]) = Null
            /\ GetProp(envelope[s][i], "error") = Str(upstream[s].statusText)

\* C8: when the upstream connection cannot be made or breaks in transit,
\* the operation returns the envelope {valid: false, response: null,
\* error: the transport error}; its promise resolves with this envelope, so
\* that the branch awaiting it goes on to write its response.
C8_TransportFailureEnvelope ==
    \A s \in conns :
        TransportFailed(s) =>
            /\ Len(envelope[s]) = 1
            /\ GetProp(envelope[s][1], "valid") = Bool(FALSE)
            /\ ResponseOf(envelope[s][1]) = Null
            /\ GetProp(envelope[s][1], "error") = upstream[s].error
            /\ pc[s] = "done"
            /\ Len(res[s]) = 1

\* C8 witness: fetch() failed for the renegotiation and the envelope holds
\* the TypeError it rejected with
C8_Witness ==
    /\ route["c1"] = "reneg"
    /\ upstream["c1"].kind = "transport"
    /\ Len(envelope["c1"]) = 1
    /\ GetProp(envelope["c1"][1], "error") = Err("TypeError", "fetch failed")
    /\ GetProp(envelope["c1"][1], "valid") = Bool(FALSE)

\* the calls made of the resolve and reject functions of the promise of
\* connection s
Settlements(s) == settled[s]["resolve"] + settled[s]["reject"]

C10_NoFailureEscapes ==
    \A s \in conns : \A row \in TableRows :
        OnRow(s, row) =>
            /\ pc[s] # "faulted"
            /\ running
            /\ Finished(s) => Len(envelope[s]) = 1 /\ Len(res[s]) = 1

-----------------------------------------------------------------------------
(* Ordering within one request *)

\* the request stream of connection s has emitted 'end', as its last event
Ended(s) ==
    /\ arrived[s] # <<>>
    /\ arrived[s][Len(arrived[s])].ev = "end"
    /\ \A i \in 1..(Len(arrived[s]) - 1) : arrived[s][i].ev # "end"

\* the upstream call of connection s has come to its end
UpstreamComplete(s) ==
    \/ upstream[s].kind \in {"transport", "bodyfail", "response"}
    \/ upstream[s].kind = "headers" /\ ~Is2xx(upstream[s].status)

\* C11: within one request the steps are ordered: on the four write routes
\* an upstream call is issued only once the body's 'end' event has come
\* (never after some chunks alone); an envelope is returned only once the
\* issued call has completed; and on every matched route a response is
\* written only once the envelope has been returned.
C11_LifecycleOrdered ==
    \A s \in conns :
        /\ (route[s] \in WriteRoutes /\ (calls[s] # <<>> \/ invoked[s] # <<>>))
               => Ended(s)
        /\ (route[s] \in WriteRoutes /\ ~Ended(s)) => pc[s] = "reading"
        /\ envelope[s] # <<>> => (calls[s] # <<>> /\ UpstreamComplete(s))
        /\ (route[s] \in WriteRoutes \cup {"info"} /\ res[s] # <<>>)
               => Len(envelope[s]) = 1

\* C11 witness: on the add route three chunks came, then 'end', then the
\* call was issued, the upstream answered and the response was written
C11_Witness ==
    /\ route["c1"] = "add"
    /\ Len(arrived["c1"]) = 4
    /\ arrived["c1"][3].ev = "data"
    /\ arrived["c1"][4].ev = "end"
    /\ Len(calls["c1"]) = 1
    /\ upstream["c1"].kind = "response"
    /\ Len(envelope["c1"]) = 1
    /\ Len(res["c1"]) = 1

-----------------------------------------------------------------------------
(* The payload on its way through the gateway *)

\* the text of the 'data' events of a request stream, in their order
RECURSIVE DataText(_)
DataText(events) ==
    IF events = <<>> THEN ""
    ELSE (IF Head(events).ev = "data" THEN Head(events).data ELSE "")
         \o DataText(Tail(events))

\* C12: on the write routes the JSON value sent as the body of the upstream
\* call equals the JSON value of the inbound request body: the gateway
\* adds, removes or changes no field.
C12_PayloadRoundTrip ==
    \A s \in conns : \A i \in 1..Len(calls[s]) :
        route[s] \in WriteRoutes =>
            /\ calls[s][i].body.t = "str"
            /\ JSONparse(calls[s][i].body.v) = JSONparse(DataText(arrived[s]))

-----------------------------------------------------------------------------
(* The session id *)

\* the path of a request target as it was sent: the target up to its query
\* or fragment
SentPath(url) == SubSeq(url, 1, FindAny(url, "?#", 1) - 1)

\* the segments of the path as sent, split on "/"
SentSegments(url) == Split(SentPath(url), "/")

\* the segment at index 6 (counted from 0) of the segments `parts`
SegmentSix(parts) == IF Len(parts) >= 7 THEN Str(parts[7]) ELSE Undefined

\* one of the segments `parts` is "." or ".."
HasDotSegment(parts) == \E j \in 1..Len(parts) : parts[j] \in {".", ".."}

-----------------------------------------------------------------------------
(* The upstream request *)

\* the spellings of a header name: the names of HTTP headers are compared
\* without regard to case
Spellings(name) ==
    CASE name = "Content-Type" -> {"Content-Type", "Content-type", "content-type"}
      [] name = "Authorization" -> {"Authorization", "authorization"}

\* the call carries the header `name` with the value `value`
Carries(call, name, value) ==
    \E h \in Spellings(name) \cap DOMAIN call.headers : call.headers[h] = value

\* C14: every upstream call of every operation carries Content-Type:
\* application/json and Authorization: Bearer {appSecret} with the
\* configured secret; the calls of the four operations that are not GET
\* carry the JSON text of the payload as their body, and the call of
\* getSessionInformation carries no body.
C14_UpstreamRequestShape ==
    \A s \in conns :
        /\ Len(calls[s]) = Len(invoked[s])
        /\ \A i \in 1..Len(calls[s]) :
               /\ Carries(calls[s][i], "Content-Type", "application/json")
               /\ Carries(calls[s][i], "Authorization",
                          "Bearer " \o appSettings.AppSecret)
               /\ IF invoked[s][i].op = "getSessionInformation"
                  THEN /\ calls[s][i].method = "GET"
                       /\ calls[s][i].body = Undefined
                  ELSE /\ calls[s][i].method # "GET"
                       /\ calls[s][i].body
                              = Str(JSONstringify(invoked[s][i].request))

\* C14 witness: closeTrack was called with {"a":1} under the secret secretB
\* and its call carries that text and Bearer secretB
C14_Witness ==
    /\ appSettings.AppSecret = "secretB"
    /\ Len(calls["c1"]) = 1
    /\ invoked["c1"][1].op = "closeTrack"
    /\ calls["c1"][1].body = Str("{\"a\":1}")
    /\ calls["c1"][1].headers["Authorization"] = "Bearer secretB"

-----------------------------------------------------------------------------
(* One operation and one upstream call for a request *)

\* C15: a matched non-OPTIONS request invokes exactly one operation, which
\* issues exactly one upstream call: never a second one, whatever the
\* upstream outcome, and not zero once the request has come to its end;
\* OPTIONS requests and unmatched requests issue no upstream call.
C15_ExactlyOneUpstreamCall ==
    \A s \in conns :
        /\ Len(invoked[s]) <= 1
        /\ Len(calls[s]) = Len(invoked[s])
        /\ \A row \in TableRows :
               /\ (OnRow(s, row) /\ Finished(s)) => Len(calls[s]) = 1
               /\ PreflightOf(s, row) => calls[s] = <<>>
        /\ Unmatched(s) => calls[s] = <<>>

\* at most one operation and one call for a request, and none for OPTIONS
\* and unmatched requests
AtMostOneUpstreamCall ==
    \A s \in conns :
        /\ Len(invoked[s]) <= 1
        /\ Len(calls[s]) = Len(invoked[s])
        /\ (pc[s] = "done" /\ route[s] \in WriteRoutes \cup {"info"})
               => Len(calls[s]) = 1
        /\ route[s] \notin WriteRoutes \cup {"info"} => calls[s] = <<>>

-----------------------------------------------------------------------------
(* Two requests at a time *)

\* the call a request issues when it is served alone: it is made of the
\* request's own method, url and body and of the settings
AloneCall(s) ==
    LET r == Route(req[s].method, req[s].url)
    IN  IssuedCall(r, CallService(ServiceOptions(appSettings)),
                   IF r \in SessionRoutes THEN SessionIdOf(req[s].url)
                   ELSE Undefined,
                   IF r = "info" THEN Obj(<<>>)
                   ELSE JSONparse(DataText(arrived[s])).val)

\* the response a request gets when it is served alone and the upstream
\* gives it the answer upstream[s]
AloneResponse(s) ==
    LET r == Route(req[s].method, req[s].url)
    IN  IF r \in WriteRoutes \cup {"info"}
        THEN EnvelopeResponse(r, Envelope(Operation(r), jsonRequest(upstream[s])[1]))
        ELSE IF r \in PreflightRoutes THEN PreflightResponse(r)
        ELSE DenyResponse

-----------------------------------------------------------------------------
(* The configuration *)

\* the configuration and base URL a proxy constructed from the router's
\* settings has
ConfiguredService(s) ==
    /\ callservice[s].config
           = [appID |-> Str(appSettings.AppID),
              appSecret |-> Str(appSettings.AppSecret),
              callBaseURL |-> Str(appSettings.CallBaseUrl),
              debug |-> Bool(TRUE)]
    /\ callservice[s].baseURL
           = appSettings.CallBaseUrl \o appSettings.AppID \o "/sessions/"

\* C17: the configuration of a proxy and the base URL derived from it are
\* fixed at construction: baseURL = callBaseURL + appID + "/sessions/" of
\* the options laid over the defaults (an option that is not given keeps
\* its default), and no step of any request or operation changes the
\* config or baseURL of a constructed proxy or the router's appSettings.
C17_ConfigurationFixed ==
    /\ [](/\ \A s \in Slots : callservice[s] # NoService => ConfiguredService(s)
          /\ CallService(("appID" :> Str("app1")))
                 = [config |-> [appID |-> Str("app1"), appSecret |-> Str(""),
                                callBaseURL |->
                                    Str("https://rtc.live.cloudflare.com/v1/apps/"),
                                debug |-> Bool(FALSE)],
                    baseURL |->
                        "https://rtc.live.cloudflare.com/v1/apps/app1/sessions/"])
    /\ [][/\ appSettings' = appSettings
          /\ \A s \in Slots :
                 callservice[s] # NoService => callservice'[s] = callservice[s]]_vars

\* C17 witness: an operation of the proxy constructed from the settings of
\* app2 has run to its end and the proxy still has that configuration
C17_Witness ==
    /\ appSettings.AppID = "app2"
    /\ pc["c1"] = "done"
    /\ Len(envelope["c1"]) = 1
    /\ callservice["c1"].baseURL = "https://calls.example/v1/apps/app2/sessions/"
    /\ callservice["c1"].config["appSecret"] = Str("secretB")

-----------------------------------------------------------------------------
(* getSessionInformation twice *)

\* connection s has invoked getSessionInformation and got its envelope
GotInformation(s) ==
    /\ Len(invoked[s]) = 1
    /\ invoked[s][1].op = "getSessionInformation"
    /\ Len(envelope[s]) = 1

\* C18: two invocations of getSessionInformation with the same session id,
\* to which the upstream gives the same answer, issue the same call and
\* return structurally identical envelopes, in whatever order the two run:
\* the first leaves nothing behind that changes the second.
C18_InformationIdempotent ==
    \A s \in conns : \A t \in conns :
        (/\ GotInformation(s)
         /\ GotInformation(t)
         /\ invoked[s][1].sessionId = invoked[t][1].sessionId
         /\ upstream[s] = upstream[t])
            => /\ envelope[s] = envelope[t]
               /\ calls[s] = calls[t]

\* C18 witness: getSessionInformation was invoked twice for ABC123, the
\* upstream answered 200 {"sessionId":"s1"} both times, and both
\* invocations have returned
C18_Witness ==
    /\ GotInformation("c1")
    /\ GotInformation("c2")
    /\ invoked["c1"][1].sessionId = Str("ABC123")
    /\ invoked["c2"][1].sessionId = Str("ABC123")
    /\ upstream["c1"].text = "{\"sessionId\":\"s1\"}"
    /\ upstream["c2"] = upstream["c1"]
    /\ GetProp(envelope["c2"][1], "valid") = Bool(TRUE)

-----------------------------------------------------------------------------
(* The body of a write request *)

\* the chunks of the 'data' events of a request stream, in their order
DataChunks(events) ==
    LET data == SelectSeq(events, LAMBDA e : e.ev = "data")
    IN  [i \in 1..Len(data) |-> data[i].data]

\* C19: on a write route the text that is parsed and handed to the
\* operation is the concatenation of all the chunks received before 'end',
\* in the order of their arrival, none dropped, duplicated or reordered;
\* the chunks received so far are never forwarded before 'end'.
C19_PayloadIsWholeBody ==
    \A s \in conns :
        (Received(s) /\ route[s] \in WriteRoutes) =>
            /\ body[s] = DataChunks(arrived[s])
            /\ invoked[s] # <<>> =>
                   LET whole == JSONparse(DataText(arrived[s]))
                   IN  /\ Ended(s)
                       /\ whole.ok
                       /\ \A i \in 1..Len(invoked[s]) :
                              invoked[s][i].request = whole.val

\* C19 witness: the body {"a":1} came in three chunks and addNewTrack was
\* handed the object parsed from the three together
C19_Witness ==
    /\ route["c1"] = "add"
    /\ DataChunks(arrived["c1"]) = <<"{\"a\":", "1", "}">>
    /\ Len(invoked["c1"]) = 1
    /\ invoked["c1"][1].request = Obj(<<[k |-> "a", v |-> Num(1)]>>)

-----------------------------------------------------------------------------
(* An error of the request stream *)

\* the request stream of connection s has emitted 'error'
Errored(s) == \E i \in 1..Len(arrived[s]) : arrived[s][i].ev = "error"

\* C20: an 'error' event of the request stream does not abort the read: its
\* message is recorded, the chunks that come before and after it are all
\* accumulated, when 'end' comes the operation is invoked with the payload
\* of all of them, and the upstream call and the response are those that
\* the request's session id, its chunks and the upstream answer give,
\* whatever the error.
C20_ReadErrorIgnored ==
    \A s \in conns :
        (Received(s) /\ route[s] \in WriteRoutes /\ Errored(s)) =>
            /\ errorResult[s] \in RequestErrors
            /\ body[s] = DataChunks(arrived[s])
            /\ ~Ended(s) => pc[s] = "reading"
            /\ Ended(s) =>
                   LET whole == JSONparse(DataText(arrived[s]))
                   IN  IF whole.ok
                       THEN calls[s] = <<IssuedCall(route[s], callservice[s],
                                                    sessionId[s], whole.val)>>
                       ELSE pc[s] = "faulted"
            /\ res[s] # <<>> =>
                   res[s] = <<EnvelopeResponse(route[s],
                                  Envelope(Operation(route[s]),
                                           jsonRequest(upstream[s])[1]))>>

\* C20 witness: the stream emitted 'error' after the first chunk of
\* {"a":1}, the two other chunks and 'end' followed, and closeTrack was
\* called with {"a":1} and answered
C20_Witness ==
    /\ route["c1"] = "close"
    /\ Len(arrived["c1"]) = 5
    /\ arrived["c1"][1].ev = "data"
    /\ arrived["c1"][2].ev = "error"
    /\ arrived["c1"][5].ev = "end"
    /\ errorResult["c1"] = "aborted"
    /\ Len(calls["c1"]) = 1
    /\ calls["c1"][1].body = Str("{\"a\":1}")
    /\ Len(res["c1"]) = 1

-----------------------------------------------------------------------------
(* A 2xx answer whose body is no JSON *)

\* the upstream of connection s answered with a status in [200,300) and
\* its body, read to its end, is no JSON text
MalformedUpstream(s) ==
    /\ upstream[s].kind = "response"
    /\ ~JSONparse(upstream[s].text).ok

\* C21 as stated: a 2xx upstream response whose body is no JSON escapes the
\* operation as a fault: the promise is left unsettled and no envelope is
\* returned for it.
C21_ParseFailureEscapes ==
    \A s \in conns :
        MalformedUpstream(s) =>
            /\ Settlements(s) = 0
            /\ envelope[s] = <<>>

\* C21 (amended): a 2xx upstream response whose body is no JSON is taken by
\* the final catch of the request chain: the promise is rejected once with
\* the SyntaxError of the parse, the operation returns the envelope
\* {valid: false, response: null, error: the SyntaxError}, and the router
\* writes its status-200 response; the process keeps running.
C21_ParseFailureEnveloped ==
    \A s \in conns :
        MalformedUpstream(s) =>
            /\ Is2xx(upstream[s].status)
            /\ settled[s] = [resolve |-> 0, reject |-> 1]
            /\ Len(envelope[s]) = 1
            /\ GetProp(envelope[s][1], "valid") = Bool(FALSE)
            /\ ResponseOf(envelope[s][1]) = Null
            /\ GetProp(envelope[s][1], "error").t = "error"
            /\ GetProp(envelope[s][1], "error").name = "SyntaxError"
            /\ pc[s] = "done"
            /\ running
            /\ Len(res[s]) = 1
            /\ res[s][1].status = 200

\* C21 witness: the upstream answered 200 with an HTML page to
\* createNewSession, which returned valid = false with the SyntaxError, and
\* the response was written
C21_Witness ==
    /\ route["c1"] = "new"
    /\ upstream["c1"].kind = "response"
    /\ upstream["c1"].status = 200
    /\ upstream["c1"].text = "<html>"
    /\ Len(envelope["c1"]) = 1
    /\ GetProp(envelope["c1"][1], "error").name = "SyntaxError"
    /\ res["c1"] = <<[status |-> 200, headers |-> JsonHeaders,
                      body |-> <<"{\"result\":null,\"valid\":false,\"error\":{}}">>]>>

-----------------------------------------------------------------------------
(* Requests that name no session *)

\* requests on the routes that take a session id from the path, sent
\* without one: no segment at index 6, or an empty one; and one request
\* that matches no route
IdlessRequests ==
    {<<"GET", "/api/cf/call/sessions/info">>,
     <<"GET", "/api/cf/call/sessions/info/">>,
     <<"GET", "/api/cf/call/sessions/info?a/b/c/d/e/f/g">>,
     <<"PUT", "/api/cf/call/sessions/close">>,
     <<"PUT", "/api/cf/call/sessions/reneg/">>,
     <<"POST", "/api/cf/call/sessions/add">>,
     <<"POST", "/api/cf/call/sessions/add/">>,
     <<"DELETE", "/api/cf/call/sessions/info">>}

\* the steps of such requests, with bodies of ConcChunks and every upstream
\* outcome
IdlessNext ==
    \/ \E s \in Slots, r \in IdlessRequests : processRequest(s, r[1], r[2], Undefined)
    \/ \E s \in Slots, chunk \in ConcChunks : OnData(s, chunk)
    \/ \E s \in Slots, message \in RequestErrors : OnError(s, message)
    \/ \E s \in Slots : OnEnd(s)
    \/ \E s \in Slots, err \in TransportErrors : FetchRejects(s, err)
    \/ \E s \in Slots, status \in Statuses, statusText \in StatusTexts :
           FetchResolves(s, status, statusText)
    \/ \E s \in Slots, text \in UpstreamTexts : BodyArrives(s, text)
    \/ \E s \in Slots, err \in BodyErrors : BodyFails(s, err)

IdlessSpec == Init /\ [][IdlessNext]_vars

\* the request on connection s is on a route that takes a session id and
\* its path has no segment at index 6, or an empty one
Idless(s) ==
    /\ Received(s)
    /\ route[s] \in SessionRoutes
    /\ SegmentSix(SentSegments(req[s].url)) \in {Undefined, Str("")}

\* the upstream call of connection s failed: no connection, a broken
\* body, a status outside [200,300) or a body that is no JSON
UpstreamFailed(s) ==
    \/ TransportFailed(s)
    \/ RefusedUpstream(s)
    \/ MalformedUpstream(s)

\* C22: a request on the info, close, reneg or add route whose path has no
\* segment at index 6, or an empty one, is not rejected by the router: the
\* missing (undefined) or empty identifier is handed to the operation as it
\* is, exactly one upstream call is made (never a second one, and not zero
\* once the request has come to its end), and an upstream failure is
\* answered with status 200 and valid = false, never with a 400.
C22_MissingIdPassedThrough ==
    \A s \in conns :
        Idless(s) =>
            /\ sessionId[s] = SegmentSix(SentSegments(req[s].url))
            /\ \A i \in 1..Len(invoked[s]) :
                   invoked[s][i].sessionId = sessionId[s]
            /\ Len(calls[s]) <= 1
            /\ \A i \in 1..Len(res[s]) : res[s][i].status = 200
            /\ Finished(s) => Len(calls[s]) = 1 /\ Len(res[s]) = 1
            /\ (Finished(s) /\ UpstreamFailed(s)) =>
                   /\ Len(envelope[s]) = 1
                   /\ GetProp(envelope[s][1], "valid") = Bool(FALSE)
                   /\ "valid" \in MemberNames(res[s][1].body[1])
                   /\ GetProp(JSONparse(res[s][1].body[1]).val, "valid")
                          = Bool(FALSE)

\* what holds of such requests: the claim for every request that is not
\* ended by a body that is no JSON, and the target of the call, which
\* carries the text "undefined" or nothing in the place of the id
MissingIdNotRejected ==
    \A s \in conns :
        Idless(s) =>
            /\ sessionId[s] = SegmentSix(SentSegments(req[s].url))
            /\ \A i \in 1..Len(invoked[s]) :
                   invoked[s][i].sessionId = sessionId[s]
            /\ Len(calls[s]) <= 1
            /\ \A i \in 1..Len(calls[s]) :
                   StartsWith(calls[s][i].url,
                              TableBase \o (IF sessionId[s] = Undefined
                                            THEN "undefined" ELSE ""))
            /\ \A i \in 1..Len(res[s]) : res[s][i].status = 200
            /\ pc[s] = "done" => Len(calls[s]) = 1 /\ Len(res[s]) = 1
            /\ pc[s] = "faulted" =>
                   /\ route[s] \in WriteRoutes
                   /\ ~JSONparse(DataText(arrived[s])).ok
            /\ (pc[s] = "done" /\ UpstreamFailed(s)) =>
                   /\ GetProp(envelope[s][1], "valid") = Bool(FALSE)
                   /\ GetProp(JSONparse(res[s][1].body[1]).val, "valid")
                          = Bool(FALSE)

-----------------------------------------------------------------------------
(* The envelope *)

\* C23: every envelope an operation returns is well-formed: valid is a
\* boolean; valid = true implies that error is null and that the response
\* field holds the parsed body of the upstream answer; valid = false
\* implies that the response field is null and error is neither null nor
\* undefined; no envelope has both a response and an error that are not
\* null.
C23_EnvelopeWellFormed ==
    \A s \in conns : \A i \in 1..Len(envelope[s]) :
        LET env == envelope[s][i]
            valid == GetProp(env, "valid")
            error == GetProp(env, "error")
        IN  /\ valid \in {Bool(TRUE), Bool(FALSE)}
            /\ {env.v[j].k : j \in 1..Len(env.v)}
                   = {"valid", "error", ResponseName(invoked[s][i].op)}
            /\ valid = Bool(TRUE) =>
                   /\ error = Null
                   /\ upstream[s].kind = "response"
                   /\ JSONparse(upstream[s].text).ok
                   /\ ResponseOf(env) = JSONparse(upstream[s].text).val
            /\ valid = Bool(FALSE) =>
                   /\ ResponseOf(env) = Null
                   /\ error \notin {Null, Undefined}
            /\ ~(ResponseOf(env) # Null /\ error # Null)

\* C23 witness: renegotiateSession was answered 200 with the body [1,2] and
\* returned valid = true, the array as its response and error = null
C23_Witness ==
    /\ route["c1"] = "reneg"
    /\ upstream["c1"].text = "[1,2]"
    /\ envelope["c1"]
           = <<Obj(<<[k |-> "valid", v |-> Bool(TRUE)],
                     [k |-> "renegotiateSessionResponse",
                      v |-> Arr(<<Num(1), Num(2)>>)],
                     [k |-> "error", v |-> Null]>>)>>

-----------------------------------------------------------------------------
(* The error as the caller reads it *)

\* the description of the failure of the upstream call of connection s: the
\* message of the transport error, or the status text of the refusal
FailureDescription(s) ==
    IF TransportFailed(s) THEN upstream[s].error.message
    ELSE upstream[s].statusText

\* the JSON value carries the text: it is the text, or an object with a
\* member that is the text
Describes(val, text) ==
    \/ val = Str(text)
    \/ /\ val.t = "obj"
       /\ \E j \in 1..Len(val.v) : val.v[j].v = Str(text)

\* the error member of the body of the response written on connection s
WrittenError(s) == GetProp(JSONparse(res[s][1].body[1]).val, "error")

\* C24: when the upstream call fails, by a transport error or a status
\* outside [200,300), the error field of the JSON body written to the
\* caller carries the description of the failure, the transport message or
\* the status text, that the envelope holds.
C24_ErrorDescriptionWritten ==
    \A s \in conns :
        (Len(res[s]) = 1 /\ (TransportFailed(s) \/ RefusedUpstream(s))) =>
            /\ GetProp(envelope[s][1], "error").message = FailureDescription(s)
            /\ Describes(WrittenError(s), FailureDescription(s))

\* what holds instead: the envelope holds the description, as the message
\* of an Error object, and the body written holds an empty object for it
DescriptionLostInWriting ==
    \A s \in conns :
        (Len(res[s]) = 1 /\ (TransportFailed(s) \/ RefusedUpstream(s))) =>
            /\ GetProp(envelope[s][1], "error").message = FailureDescription(s)
            /\ WrittenError(s) = Obj(<<>>)

-----------------------------------------------------------------------------
(* The Authorization header of the inbound request *)

\* the Authorization headers a request comes with: none, the bearer value
\* of the gateway's own secret, another bearer value
AuthHeaders == {Undefined, Str("Bearer secretA"), Str("Bearer nobody")}

\* requests of a lifecycle route without a body, of one with a body, of a
\* pre-flight and of no route
AuthRequests ==
    {<<"GET", "/api/cf/call/sessions/info/ABC123">>,
     <<"POST", "/api/cf/call/sessions/new">>,
     <<"OPTIONS", "/api/cf/call/sessions/new">>,
     <<"GET", "/api/cf/unknown/path">>}

\* the steps of two requests at a time that come with any of these headers
AuthNext ==
    \/ \E s \in Slots, r \in AuthRequests, auth \in AuthHeaders :
           processRequest(s, r[1], r[2], auth)
    \/ \E s \in Slots, chunk \in ConcChunks : OnData(s, chunk)
    \/ \E s \in Slots : OnEnd(s)
    \/ \E s \in Slots, err \in TransportErrors : FetchRejects(s, err)
    \/ \E s \in Slots, status \in ConcStatuses : FetchResolves(s, status, "")
    \/ \E s \in Slots, text \in ConcTexts : BodyArrives(s, text)
    \/ \E s \in Slots, err \in BodyErrors : BodyFails(s, err)

AuthSpec == ConcInit /\ [][AuthNext]_vars

\* C25: the router performs no authentication: of two requests with the
\* same method and target, whatever the Authorization header of each, the
\* route taken is the same; with the same body events the operation invoked
\* and the upstream call issued are the same; with the same upstream answer
\* as well the envelope and the response written are the same.  A response
\* with status 400 is written only for a request whose method and path
\* match no row of the routing table.
C25_NoAuthentication ==
    /\ \A s \in conns : \A t \in conns :
           (Received(s) /\ Received(t) /\ req[s] = req[t]) =>
               /\ route[s] = route[t]
               /\ sessionId[s] = sessionId[t]
               /\ arrived[s] = arrived[t] =>
                      /\ invoked[s] = invoked[t]
                      /\ calls[s] = calls[t]
               /\ (arrived[s] = arrived[t] /\ upstream[s] = upstream[t]) =>
                      /\ envelope[s] = envelope[t]
                      /\ res[s] = res[t]
    /\ \A s \in conns : \A i \in 1..Len(res[s]) :
           res[s][i].status = 400 => Unmatched(s)

\* C25 witness: POST /api/cf/call/sessions/new came without an
\* Authorization header on one connection and with Bearer nobody on the
\* other, both with the body 1; both were answered 404 upstream and the
\* same response was written for both
C25_Witness ==
    /\ req["c1"] = [method |-> "POST", url |-> "/api/cf/call/sessions/new"]
    /\ req["c2"] = req["c1"]
    /\ authorization["c1"] = Undefined
    /\ authorization["c2"] = Str("Bearer nobody")
    /\ body["c1"] = <<"1">>
    /\ body["c2"] = <<"1">>
    /\ upstream["c1"].status = 404
    /\ upstream["c2"].status = 404
    /\ Len(calls["c1"]) = 1
    /\ calls["c2"] = calls["c1"]
    /\ Len(res["c1"]) = 1
    /\ res["c2"] = res["c1"]

-----------------------------------------------------------------------------
(* The secret *)

\* the settings of two gateways that differ in their secret alone
SecretSettings ==
    {[AppID |-> "app1", AppSecret |-> secret,
      CallBaseUrl |-> "https://rtc.live.cloudflare.com/v1/apps/"] :
         secret \in {"secretA", "secretB"}}

\* the bootstrap of a gateway with one of these settings
SecretInit ==
    /\ appSettings \in SecretSettings
    /\ running = TRUE
    /\ conns = {"c1"}
    /\ pc = [s \in Slots |-> "idle"]
    /\ req = [s \in Slots |-> [method |-> "", url |-> ""]]
    /\ authorization = [s \in Slots |-> Undefined]
    /\ route = [s \in Slots |-> "none"]
    /\ sessionId = [s \in Slots |-> Undefined]
    /\ callservice = [s \in Slots |-> NoService]
    /\ arrived = [s \in Slots |-> <<>>]
    /\ body = [s \in Slots |-> <<>>]
    /\ errorResult = [s \in Slots |-> ""]
    /\ invoked = [s \in Slots |-> <<>>]
    /\ calls = [s \in Slots |-> <<>>]
    /\ upstream = [s \in Slots |-> NoUpstream]
    /\ settled = [s \in Slots |-> [resolve |-> 0, reject |-> 0]]
    /\ envelope = [s \in Slots |-> <<>>]
    /\ result = [s \in Slots |-> Undefined]
    /\ res = [s \in Slots |-> <<>>]
    /\ VerifierInit
    /\ ClientInit

SecretSpec == SecretInit /\ [][Next]_vars

\* the text holds the part somewhere in it
Contains(text, part) ==
    /\ Len(part) <= Len(text)
    /\ \E i \in 1..(Len(text) + 1 - Len(part)) :
           SubSeq(text, i, i + Len(part) - 1) = part

\* the settings of the gateway that differs from this one in its secret
OtherGateway ==
    CHOOSE settings \in SecretSettings : settings # appSettings

\* a call without its Authorization header
Unsigned(call) ==
    [call EXCEPT !.headers =
        [h \in DOMAIN call.headers \ {"Authorization"} |-> call.headers[h]]]

\* C26: the secret never reaches the caller.  Of two gateways that differ
\* in appSecret alone, each response (status, headers, body) is the one
\* that the request and the upstream answer give, the same for both
\* gateways, and the secret is in no header and no body written; each
\* upstream call carries the secret in its Authorization header and nowhere
\* else: without that header it is the call the other gateway issues.
C26_SecretNotDisclosed ==
    \A s \in conns :
        /\ res[s] # <<>> => res[s] = <<AloneResponse(s)>>
        /\ \A i \in 1..Len(res[s]) :
               /\ \A h \in DOMAIN res[s][i].headers :
                      ~Contains(res[s][i].headers[h], appSettings.AppSecret)
               /\ \A j \in 1..Len(res[s][i].body) :
                      ~Contains(res[s][i].body[j], appSettings.AppSecret)
        /\ \A i \in 1..Len(calls[s]) :
               /\ calls[s][i].headers["Authorization"]
                      = "Bearer " \o appSettings.AppSecret
               /\ Unsigned(calls[s][i])
                      = Unsigned(IssuedCall(route[s],
                                            CallService(ServiceOptions(OtherGateway)),
                                            sessionId[s], invoked[s][i].request))
               /\ ~Contains(calls[s][i].url, appSettings.AppSecret)

\* C26 witness: the gateway with the secret secretB has sent it upstream in
\* the call of createNewSession and has written the response to the answer
\* 200 {"sessionId":"s1"}, which is made of that answer alone
C26_Witness ==
    /\ appSettings.AppSecret = "secretB"
    /\ route["c1"] = "new"
    /\ Len(calls["c1"]) = 1
    /\ calls["c1"][1].headers["Authorization"] = "Bearer secretB"
    /\ res["c1"]
           = <<[status |-> 200, headers |-> JsonHeaders,
                body |-> <<"{\"result\":{\"sessionId\":\"s1\"},\"valid\":true,\"error\":null}">>]>>

-----------------------------------------------------------------------------
(* processRequestAsync *)

\* the server constructed with the settings, or without appSettings among
\* its options
AsyncInit ==
    /\ appSettings \in SettingsSet \cup {Undefined}
    /\ running = TRUE
    /\ conns = {"c1"}
    /\ pc = [s \in Slots |-> "idle"]
    /\ req = [s \in Slots |-> [method |-> "", url |-> ""]]
    /\ authorization = [s \in Slots |-> Undefined]
    /\ route = [s \in Slots |-> "none"]
    /\ sessionId = [s \in Slots |-> Undefined]
    /\ callservice = [s \in Slots |-> NoService]
    /\ arrived = [s \in Slots |-> <<>>]
    /\ body = [s \in Slots |-> <<>>]
    /\ errorResult = [s \in Slots |-> ""]
    /\ invoked = [s \in Slots |-> <<>>]
    /\ calls = [s \in Slots |-> <<>>]
    /\ upstream = [s \in Slots |-> NoUpstream]
    /\ settled = [s \in Slots |-> [resolve |-> 0, reject |-> 0]]
    /\ envelope = [s \in Slots |-> <<>>]
    /\ result = [s \in Slots |-> Undefined]
    /\ res = [s \in Slots |-> <<>>]
    /\ VerifierInit
    /\ ClientInit

\* fetch() settles every call, as in FairSpec
AsyncSpec ==
    AsyncInit /\ [][FairNext]_vars /\ \A s \in Slots : WF_vars(UpstreamSettles(s))

\* processRequest threw for the request on connection s
Threw(s) == pc[s] = "threw"

\* processRequest has come to its end for the request on connection s
\* without throwing: at once on the routes that await nothing, with the
\* response on the info route
Completed(s) ==
    /\ pc[s] \notin {"idle", "threw"}
    /\ route[s] = "info" => Len(res[s]) = 1

-----------------------------------------------------------------------------
(* The token verifier: what the handler computes *)

\* the base64 and base64url alphabets, in the order of their values
Base64Alphabet ==
    "ABCDEFGHIJKLMNOPQRSTUVWXYZabcdefghijklmnopqrstuvwxyz0123456789+/"

Base64Value(c) ==
    IF c = "-" THEN 62
    ELSE IF c = "_" THEN 63
    ELSE (CHOOSE i \in 1..64 : Char(Base64Alphabet, i) = c) - 1

\* the characters of the codes 32 to 126
Ascii ==
    " !\"#$%&'()*+,-./0123456789:;<=>?@ABCDEFGHIJKLMNOPQRSTUVWXYZ[\\]^_"

AsciiLower == "abcdefghijklmnopqrstuvwxyz{|}~"

\* The character of a code from 32 to 126.  The grave accent (code 96) has
\* no string literal here and stands as "?"; no section of the tokens below
\* decodes to it.
FromCharCode(n) ==
    IF n < 96 THEN Char(Ascii, n - 31)
    ELSE IF n = 96 THEN "?"
    ELSE Char(AsciiLower, n - 96)

\* Buffer.from(section, 'base64').toString('utf8'), for a section of the
\* base64 or base64url alphabet, unpadded, whose bytes are of the codes 32
\* to 126: four characters give three bytes, a rest of two gives one byte
\* and a rest of three gives two
RECURSIVE Base64From(_, _)
Base64From(s, i) ==
    IF i + 1 > Len(s) THEN ""
    ELSE LET a == Base64Value(Char(s, i))
             b == Base64Value(Char(s, i + 1))
         IN  FromCharCode(a * 4 + b \div 16)
             \o (IF i + 2 > Len(s) THEN ""
                 ELSE LET c == Base64Value(Char(s, i + 2))
                      IN  FromCharCode((b % 16) * 16 + c \div 4)
                          \o (IF i + 3 > Len(s) THEN ""
                              ELSE FromCharCode((c % 4) * 64
                                                + Base64Value(Char(s, i + 3)))
                                   \o Base64From(s, i + 4)))

Base64Decode(section) == Base64From(section, 1)

\* jwkToPem(jwk) of the jwk-to-pem package: the PEM text of the key
\* material, n; it throws for a key without it
jwkToPem(jwk) ==
    IF jwk.t = "obj" /\ GetProp(jwk, "n").t = "str"
    THEN [ok |-> TRUE, pem |-> "PEM" \o GetProp(jwk, "n").v]
    ELSE [ok |-> FALSE, error |-> Err("Error", "Expected: jwk.kty")]

\* the signature of a signing input under the private key of a PEM: a
\* text the key and the input determine
Signature(pem, input) == pem \o "-" \o NatToStr(Len(input))

\* jwt.verify(token, pem) of the jsonwebtoken package at the time `now`:
\* the token has three sections, its payload is JSON, its signature is the
\* one of header.payload under the key, and it is not expired; the payload
\* is returned, or an error is thrown
VerifyPayload(sections, payload, pem, now) ==
    IF ~payload.ok \/ payload.val.t # "obj"
    THEN [ok |-> FALSE, error |-> Err("JsonWebTokenError", "invalid token")]
    ELSE IF sections[3] # Signature(pem, sections[1] \o "." \o sections[2])
    THEN [ok |-> FALSE,
          error |-> Err("JsonWebTokenError", "invalid signature")]
    ELSE IF /\ GetProp(payload.val, "exp").t = "num"
            /\ now >= GetProp(payload.val, "exp").v
    THEN [ok |-> FALSE, error |-> Err("TokenExpiredError", "jwt expired")]
    ELSE [ok |-> TRUE, claim |-> payload.val]

VerifySections(sections, pem, now) ==
    IF Len(sections) # 3
    THEN [ok |-> FALSE, error |-> Err("JsonWebTokenError", "jwt malformed")]
    ELSE VerifyPayload(sections, JSONparse(Base64Decode(sections[2])), pem, now)

jwtVerify(token, pem, now) == VerifySections(Split(token, "."), pem, now)

\* (token || '').split('.')
TokenSections(ev) ==
    Split(IF ev.token = Undefined THEN "" ELSE ev.token.v, ".")

\* result = { userName: '', clientId: '', error, isValid: false }
Invalid(error) ==
    Obj(<<[k |-> "userName", v |-> Str("")],
          [k |-> "clientId", v |-> Str("")],
          [k |-> "error", v |-> error],
          [k |-> "isValid", v |-> Bool(FALSE)]>>)

\* the handler before it asks for the keys: the error it throws, null when
\* it throws none
HeaderError(tokenSections) ==
    IF Len(tokenSections) < 2
    THEN Err("Error", "requested token is invalid")
    ELSE IF ~JSONparse(Base64Decode(tokenSections[1])).ok
    THEN Err("SyntaxError", "Unexpected token in JSON")
    ELSE Null

EarlyError(ev) == HeaderError(TokenSections(ev))

\* a comparison of two JavaScript values with < or >, which is false when
\* one of them is undefined
NumLess(x, y) == x.t = "num" /\ y.t = "num" /\ x.v < y.v

\* the handler once it has the keys, at the time `now`: the result it
\* returns.  The checks of the claim:
JudgeClaim(ev, claim, now) ==
    IF \/ NumLess(GetProp(claim, "exp"), Num(now))
       \/ NumLess(Num(now), GetProp(claim, "auth_time"))
    THEN Invalid(Err("Error", "claim is expired or invalid"))
    ELSE IF GetProp(claim, "iss")
                # Str("https://" \o ev.cognitoIdpHost \o "/" \o ev.cognitoPoolId)
    THEN Invalid(Err("Error", "claim issuer is invalid"))
    ELSE IF GetProp(claim, "token_use") # Str("access")
    THEN Invalid(Err("Error", "claim use is not access"))
    ELSE Obj(<<[k |-> "userName", v |-> GetProp(claim, "username")],
               [k |-> "clientId", v |-> GetProp(claim, "client_id")],
               [k |-> "isValid", v |-> Bool(TRUE)]>>)

\* const claim = jwt.verify(token, key.pem), which may throw
JudgeVerified(ev, verified, now) ==
    IF ~verified.ok THEN Invalid(verified.error)
    ELSE JudgeClaim(ev, verified.claim, now)

\* const key = keys[header.kid]
JudgeKid(ev, keys, kid, now) ==
    IF ~(kid.t = "str" /\ kid.v \in DOMAIN keys)
    THEN Invalid(Err("Error", "claim made for unknown kid"))
    ELSE JudgeVerified(ev, jwtVerify(ev.token.v, keys[kid.v].pem, now), now)

JudgeHeader(ev, keys, header, now) ==
    IF header.t = "null"
    THEN Invalid(Err("TypeError", "Cannot read properties of null"))
    ELSE JudgeKid(ev, keys,
                  IF header.t = "obj" THEN GetProp(header, "kid") ELSE Undefined,
                  now)

Judge(ev, keys, now) ==
    JudgeHeader(ev, keys, JSONparse(Base64Decode(TokenSections(ev)[1])).val, now)

\* publicKeys.keys.reduce(...): the map of kid to { instance, pem }, or the
\* error thrown when the answer has no keys array or a key has no PEM
\* agg[current.kid] = { instance: current, pem }
SetKey(agg, kid, current, pem) ==
    [k \in DOMAIN agg \cup {kid} |->
        IF k = kid THEN [instance |-> current, pem |-> pem] ELSE agg[k]]

RECURSIVE KeysReduce(_, _)
KeysReduce(items, agg) ==
    IF items = <<>> THEN [ok |-> TRUE, keys |-> agg]
    ELSE IF ~jwkToPem(Head(items)).ok
    THEN [ok |-> FALSE, error |-> jwkToPem(Head(items)).error]
    ELSE KeysReduce(Tail(items),
                    SetKey(agg, JsToString(GetProp(Head(items), "kid")),
                           Head(items), jwkToPem(Head(items)).pem))

KeyMap(answer) ==
    IF answer.t # "obj" \/ GetProp(answer, "keys").t # "arr"
    THEN [ok |-> FALSE,
          error |-> Err("TypeError", "Cannot read properties of undefined")]
    ELSE KeysReduce(GetProp(answer, "keys").v, <<>>)

-----------------------------------------------------------------------------
(* The token verifier: its invocations *)

\* the sections of the tokens: the headers {"kid":"k1"} and {"kid":"k7"},
\* the text nojson, and the claims
\* {"token_use":"access","auth_time":10,"exp":20,"iss":"https://idp/p1",
\*  "username":"u1","client_id":"c1"}, also with the token_use "id"
HeaderK1 == "eyJraWQiOiJrMSJ9"

HeaderK7 == "eyJraWQiOiJrNyJ9"

HeaderNoJson == "bm9qc29u"

AccessClaims ==
    "eyJ0b2tlbl91c2UiOiJhY2Nlc3MiLCJhdXRoX3RpbWUiOjEwLCJleHAiOjIwLCJpc3MiOiJo"
    \o "dHRwczovL2lkcC9wMSIsInVzZXJuYW1lIjoidTEiLCJjbGllbnRfaWQiOiJjMSJ9"

IdClaims ==
    "eyJ0b2tlbl91c2UiOiJpZCIsImF1dGhfdGltZSI6MTAsImV4cCI6MjAsImlzcyI6Imh0dHBz"
    \o "Oi8vaWRwL3AxIiwidXNlcm5hbWUiOiJ1MSIsImNsaWVudF9pZCI6ImMxIn0"

\* a token of a header and claims, signed with the key of the PEM
Signed(header, claims, pem) ==
    header \o "." \o claims \o "." \o Signature(pem, header \o "." \o claims)

GoodToken == Signed(HeaderK1, AccessClaims, "PEMA")

Tokens ==
    { Undefined,
      Str(GoodToken),
      Str(HeaderNoJson \o ".x"),
      Str(HeaderK1 \o "." \o AccessClaims),
      Str(Signed(HeaderK7, AccessClaims, "PEMA")),
      Str(Signed(HeaderK1, AccessClaims, "PEMB")),
      Str(Signed(HeaderK1, IdClaims, "PEMA")) }

\* the events of the invocations: a token of the pool p1 presented for the
\* pool p1 or p2
Events ==
    { [token |-> t, cognitoIdpHost |-> "idp", cognitoPoolId |-> "p1"] :
          t \in Tokens }
    \cup { [token |-> Str(GoodToken), cognitoIdpHost |-> "idp",
            cognitoPoolId |-> "p2"] }

\* Math.floor((new Date()).valueOf() / 1000) at the time of the check
Times == {5, 15, 20, 25}

\* the bodies the identity provider answers a key request with
KeyTexts ==
    { "{\"keys\":[{\"kid\":\"k1\",\"n\":\"A\"},{\"kid\":\"k2\",\"n\":\"B\"}]}",
      "{\"keys\":[{\"kid\":\"k9\",\"n\":\"Z\"}]}",
      "{\"keys\":[]}",
      "{\"keys\":[{\"kid\":\"k1\"}]}",
      "{\"message\":\"not found\"}",
      "<html>" }

\* e.message of the key request's error event
KeyRequestErrors == {"connect ECONNREFUSED"}

\* cacheKeys once assigned: the map of kid to { instance, pem }
Cached(keys) == [t |-> "map", v |-> keys]

\* const options = { host, path, method }
options(request) ==
    [host |-> request.cognitoIdpHost,
     path |-> "/" \o request.cognitoPoolId \o "/.well-known/jwks.json",
     method |-> "GET"]

\* a getPublicKeys without the test of cacheKeys: every invocation asks for
\* the keys
handler_alwaysFetches(h, ev, now) ==
    /\ vpc[h] = "idle"
    /\ event' = [event EXCEPT ![h] = ev]
    /\ IF EarlyError(ev) # Null
       THEN /\ verifyResult' = [verifyResult EXCEPT ![h] = Invalid(EarlyError(ev))]
            /\ vpc' = [vpc EXCEPT ![h] = "done"]
            /\ UNCHANGED jwksRequests
       ELSE /\ jwksRequests' = Append(jwksRequests, options(ev))
            /\ vpc' = [vpc EXCEPT ![h] = "fetching"]
            /\ UNCHANGED verifyResult
    /\ UNCHANGED <<clientVars, gatewayVars, cacheKeys, publicKeys>>

\* handler(event) up to its first await that waits: the token is split and
\* its header parsed; with the keys cached the invocation runs to its end,
\* without them the key request is sent
handler(h, ev, now) ==
    /\ vpc[h] = "idle"
    /\ event' = [event EXCEPT ![h] = ev]
    /\ IF EarlyError(ev) # Null
       THEN /\ verifyResult' = [verifyResult EXCEPT ![h] = Invalid(EarlyError(ev))]
            /\ vpc' = [vpc EXCEPT ![h] = "done"]
            /\ UNCHANGED jwksRequests
       ELSE IF cacheKeys = Undefined
       THEN /\ jwksRequests' = Append(jwksRequests, options(ev))
            /\ vpc' = [vpc EXCEPT ![h] = "fetching"]
            /\ UNCHANGED verifyResult
       ELSE /\ verifyResult' = [verifyResult EXCEPT ![h] = Judge(ev, cacheKeys.v, now)]
            /\ vpc' = [vpc EXCEPT ![h] = "done"]
            /\ UNCHANGED jwksRequests
    /\ UNCHANGED <<clientVars, gatewayVars, cacheKeys, publicKeys>>

\* cacheKeys = publicKeys.keys.reduce(...), and the rest of the handler; an
\* error thrown by the reduction is caught by the handler
KeysReduced(h, reduced, now) ==
    IF ~reduced.ok
    THEN /\ verifyResult' = [verifyResult EXCEPT ![h] = Invalid(reduced.error)]
         /\ UNCHANGED cacheKeys
    ELSE /\ cacheKeys' = Cached(reduced.keys)
         /\ verifyResult' = [verifyResult EXCEPT
                 ![h] = Judge(event[h], reduced.keys, now)]

\* publicKeys = JSON.parse(...): a SyntaxError is thrown in the listener,
\* outside the promise, which is then never settled; otherwise the promise
\* is resolved and the handler goes on
KeysParsed(h, parsed, now) ==
    IF ~parsed.ok
    THEN /\ vpc' = [vpc EXCEPT ![h] = "faulted"]
         /\ UNCHANGED <<cacheKeys, publicKeys, verifyResult>>
    ELSE /\ publicKeys' = [publicKeys EXCEPT ![h] = parsed.val]
         /\ vpc' = [vpc EXCEPT ![h] = "done"]
         /\ KeysReduced(h, KeyMap(parsed.val), now)

\* res.on('end'): the answer to the key request has arrived
KeysArrive(h, text, now) ==
    /\ vpc[h] = "fetching"
    /\ KeysParsed(h, JSONparse(text), now)
    /\ UNCHANGED <<clientVars, gatewayVars, jwksRequests, event>>

\* req.on('error'): reject("error: " + e.message), which the handler catches
KeysFail(h, message) ==
    /\ vpc[h] = "fetching"
    /\ verifyResult' = [verifyResult EXCEPT
            ![h] = Invalid(Str("error: " \o message))]
    /\ vpc' = [vpc EXCEPT ![h] = "done"]
    /\ UNCHANGED <<clientVars, gatewayVars, cacheKeys, jwksRequests, event, publicKeys>>

\* the verifier's process, in which no gateway is constructed
VerifyInit ==
    /\ appSettings = Undefined
    /\ running = FALSE
    /\ conns = {}
    /\ pc = [s \in Slots |-> "idle"]
    /\ req = [s \in Slots |-> [method |-> "", url |-> ""]]
    /\ authorization = [s \in Slots |-> Undefined]
    /\ route = [s \in Slots |-> "none"]
    /\ sessionId = [s \in Slots |-> Undefined]
    /\ callservice = [s \in Slots |-> NoService]
    /\ arrived = [s \in Slots |-> <<>>]
    /\ body = [s \in Slots |-> <<>>]
    /\ errorResult = [s \in Slots |-> ""]
    /\ invoked = [s \in Slots |-> <<>>]
    /\ calls = [s \in Slots |-> <<>>]
    /\ upstream = [s \in Slots |-> NoUpstream]
    /\ settled = [s \in Slots |-> [resolve |-> 0, reject |-> 0]]
    /\ envelope = [s \in Slots |-> <<>>]
    /\ result = [s \in Slots |-> Undefined]
    /\ res = [s \in Slots |-> <<>>]
    /\ VerifierInit
    /\ ClientInit

VerifyNext ==
    \/ \E h \in Invocations, ev \in Events, now \in Times : handler(h, ev, now)
    \/ \E h \in Invocations, text \in KeyTexts, now \in Times :
           KeysArrive(h, text, now)
    \/ \E h \in Invocations, message \in KeyRequestErrors : KeysFail(h, message)

VerifySpec == VerifyInit /\ [][VerifyNext]_vars

-----------------------------------------------------------------------------
(* The token verifier: the key cache *)

\* the step in which invocation h starts
Starts(h) == vpc[h] = "idle" /\ vpc'[h] # "idle"

\* the step in which the key request of invocation h ends without a key
\* set: by a request error, by an answer that is not JSON, or by an answer
\* the reduction throws on
FetchFails(h) ==
    /\ vpc[h] = "fetching"
    /\ vpc'[h] # "fetching"
    /\ \/ vpc'[h] = "faulted"
       \/ publicKeys'[h] = Undefined
       \/ ~KeyMap(publicKeys'[h]).ok

\* C28: once cacheKeys is populated, an invocation that starts issues no key
\* request and leaves cacheKeys as it is, whatever host and pool its event
\* names, and it ends in that step; a key request that fails leaves
\* cacheKeys as it was, unpopulated when it was unpopulated.
C28_PopulatedCacheIsKept ==
    [][\A h \in Invocations :
          /\ (cacheKeys # Undefined /\ Starts(h))
                 => /\ jwksRequests' = jwksRequests
                    /\ cacheKeys' = cacheKeys
                    /\ vpc'[h] = "done"
          /\ FetchFails(h) => cacheKeys' = cacheKeys]_vars

\* an invocation for the pool p2 that started on the keys cached for the
\* pool p1: it sent no request and judged the token with those keys
C28_Witness ==
    \E h \in Invocations :
        /\ vpc[h] = "done"
        /\ event[h].cognitoPoolId = "p2"
        /\ publicKeys[h] = Undefined
        /\ GetProp(verifyResult[h], "error")
               = Err("Error", "claim issuer is invalid")
        /\ cacheKeys # Undefined
        /\ "k1" \in DOMAIN cacheKeys.v
        /\ Len(jwksRequests) = 1
        /\ jwksRequests[1].path = "/p1/.well-known/jwks.json"


\* the invocations whose key request ended in an assignment to cacheKeys
CacheWriters ==
    {h \in Invocations :
        /\ vpc[h] = "done"
        /\ publicKeys[h] # Undefined
        /\ KeyMap(publicKeys[h]).ok}

\* C29: the key set is asked for at most once in a process and cacheKeys is
\* assigned at most once, in every interleaving of the invocations.
C29_KeysFetchedOnce ==
    /\ Len(jwksRequests) <= 1
    /\ Cardinality(CacheWriters) <= 1

\* two invocations that started before any answer each sent a key request,
\* and each assigned cacheKeys; the keys of the later answer are the ones
\* that stay
TwoFetchesTwoWrites ==
    /\ Len(jwksRequests) = 2
    /\ CacheWriters = Invocations
    /\ \E h \in Invocations : cacheKeys = Cached(KeyMap(publicKeys[h]).keys)


-----------------------------------------------------------------------------
(* The token verifier: the result of an invocation *)

IsValid(r) == GetProp(r, "isValid") = Bool(TRUE)

\* the conditions under which a token is accepted at the time `now` with
\* the key set `keys`, for the sections of the token, its header and its
\* claims
Accepted(ev, sections, header, claims, keys, now) ==
    /\ Len(sections) >= 3
    /\ header.t = "obj"
    /\ GetProp(header, "kid").t = "str"
    /\ GetProp(header, "kid").v \in DOMAIN keys
    /\ sections[3] = Signature(keys[GetProp(header, "kid").v].pem,
                               sections[1] \o "." \o sections[2])
    /\ claims.t = "obj"
    /\ GetProp(claims, "auth_time").v <= now
    /\ now <= GetProp(claims, "exp").v
    /\ GetProp(claims, "iss")
           = Str("https://" \o ev.cognitoIdpHost \o "/" \o ev.cognitoPoolId)
    /\ GetProp(claims, "token_use") = Str("access")

AcceptedAt(ev, sections, keys, now) ==
    /\ Len(sections) >= 2
    /\ Accepted(ev, sections, JSONparse(Base64Decode(sections[1])).val,
                JSONparse(Base64Decode(sections[2])).val, keys, now)

\* the result of a refusal: isValid = false, empty names, and the error
Refusal(r) ==
    /\ GetProp(r, "isValid") = Bool(FALSE)
    /\ GetProp(r, "userName") = Str("")
    /\ GetProp(r, "clientId") = Str("")
    /\ GetProp(r, "error") # Undefined

\* the result invocation h returns in a step is a valid one only for a
\* token accepted with the keys in cacheKeys at some time of the check, and
\* a refusal otherwise
ResultJustified ==
    [][\A h \in Invocations :
          (verifyResult[h] = Undefined /\ verifyResult'[h] # Undefined)
              => IF IsValid(verifyResult'[h])
                 THEN /\ cacheKeys' # Undefined
                      /\ \E now \in Times :
                             AcceptedAt(event'[h], TokenSections(event'[h]),
                                        cacheKeys'.v, now)
                 ELSE Refusal(verifyResult'[h])]_vars

\* C30: the handler never rejects and every invocation resolves to a result:
\* an invocation whose key request has been answered has returned; the
\* result is valid only for an accepted token and is a refusal otherwise.
C30_HandlerAlwaysResolves ==
    /\ [](\A h \in Invocations :
              vpc[h] \notin {"idle", "fetching"} => verifyResult[h] # Undefined)
    /\ ResultJustified

\* an invocation whose key request was answered with a text that is not JSON:
\* it sent the request, no result was returned, and no later step returns one
NeverResolved ==
    \E h \in Invocations :
        /\ vpc[h] = "faulted"
        /\ verifyResult[h] = Undefined
        /\ \E i \in 1..Len(jwksRequests) : jwksRequests[i] = options(event[h])

\* a token accepted: the invocation returned the names of its claims
ValidResolved ==
    \E h \in Invocations :
        verifyResult[h] = Obj(<<[k |-> "userName", v |-> Str("u1")],
                                [k |-> "clientId", v |-> Str("c1")],
                                [k |-> "isValid", v |-> Bool(TRUE)]>>)


-----------------------------------------------------------------------------
(* The signalling client: WebSocketClientBase *)

\* the calls of open() and close() that one client receives
MaxCalls == 4

\* the options a client is constructed with: none, a signalling URL, and a
\* text that is no WebSocket URL
SignalOptions ==
    { Undefined,
      [signallingURL |-> "wss://signal.example:443"],
      [signallingURL |-> "signal.example"] }

\* the constructor's config: the default, overridden by the options
constructor(signalOptions) ==
    IF signalOptions = Undefined
    THEN [signallingURL |-> "wss://127.0.0.1:443"]
    ELSE signalOptions

\* new WebSocket(url) throws a SyntaxError for a URL that is not of the
\* scheme ws or wss
WebSocketThrows(url) == ~(StartsWith(url, "ws://") \/ StartsWith(url, "wss://"))

\* the callbacks: signallingEventOpen, ...Error, ...Close, ...ErrorDetails
\* and ...Message
SignalEvents == {"Open", "Error", "Close", "ErrorDetails", "Message"}

\* the texts the socket's message event carries
MessageTexts == {"{\"a\":1}", "null", "x"}

\* if (signal), for a parsed value
Truthy(val) ==
    CASE val.t \in {"undefined", "null"} -> FALSE
      [] val.t = "bool" -> val.v
      [] val.t = "num" -> val.v # 0
      [] val.t = "str" -> val.v # ""
      [] OTHER -> TRUE

\* what is heard when the callback e is called with a message for the
\* socket i: the call of a callback that was never assigned throws a
\* TypeError and nothing is heard
Signal(e, message, i) ==
    IF e \in subscribed
    THEN [message |-> message, socket |-> i, newest |-> Len(sockets)]
    ELSE heard

\* onOpen, onError, onClose, onErrorDetails, onMessage
Subscribe(e) ==
    /\ config # Undefined
    /\ e \notin subscribed
    /\ subscribed' = subscribed \cup {e}
    /\ UNCHANGED <<gatewayVars, verifierVars, config, closed, webSocket,
                   sockets, heard, called>>

onOpen == Subscribe("Open")

onError == Subscribe("Error")

onClose == Subscribe("Close")

onErrorDetails == Subscribe("ErrorDetails")

onMessage == Subscribe("Message")

\* an open() without the test of closed
open_unguarded ==
    /\ config # Undefined
    /\ Len(called) < MaxCalls
    /\ called' = Append(called, "open")
    /\ closed' = FALSE
    /\ IF WebSocketThrows(config.signallingURL)
       THEN /\ heard' = Signal("ErrorDetails", "Error opening signalling", 0)
            /\ UNCHANGED <<webSocket, sockets>>
       ELSE /\ sockets' = Append(sockets, "CONNECTING")
            /\ webSocket' = Num(Len(sockets) + 1)
            /\ UNCHANGED heard
    /\ UNCHANGED <<gatewayVars, verifierVars, config, subscribed>>

\* open()
open ==
    /\ config # Undefined
    /\ Len(called) < MaxCalls
    /\ called' = Append(called, "open")
    /\ IF ~closed
       THEN UNCHANGED <<closed, webSocket, sockets, heard>>
       ELSE /\ closed' = FALSE
            /\ IF WebSocketThrows(config.signallingURL)
               THEN /\ heard' = Signal("ErrorDetails", "Error opening signalling", 0)
                    /\ UNCHANGED <<webSocket, sockets>>
               ELSE /\ sockets' = Append(sockets, "CONNECTING")
                    /\ webSocket' = Num(Len(sockets) + 1)
                    /\ UNCHANGED heard
    /\ UNCHANGED <<gatewayVars, verifierVars, config, subscribed>>

\* close()
close ==
    /\ config # Undefined
    /\ Len(called) < MaxCalls
    /\ called' = Append(called, "close")
    /\ IF closed
       THEN UNCHANGED <<closed, webSocket, sockets>>
       ELSE /\ closed' = TRUE
            /\ IF webSocket = Null \/ sockets[webSocket.v] # "OPEN"
               THEN UNCHANGED <<webSocket, sockets>>
               ELSE /\ sockets' = [sockets EXCEPT ![webSocket.v] = "CLOSING"]
                    /\ webSocket' = Null
    /\ UNCHANGED <<gatewayVars, verifierVars, config, subscribed, heard>>

\* the connection of socket i is established: webSocket.onopen
SocketOpens(i) ==
    /\ sockets[i] = "CONNECTING"
    /\ sockets' = [sockets EXCEPT ![i] = "OPEN"]
    /\ heard' = Signal("Open", "Signalling has opened.", i)
    /\ UNCHANGED <<gatewayVars, verifierVars, config, closed, webSocket,
                   subscribed, called>>

\* the connection of socket i fails: webSocket.onerror, then
\* webSocket.onclose
SocketFails(i) ==
    /\ sockets[i] = "CONNECTING"
    /\ sockets' = [sockets EXCEPT ![i] = "CLOSED"]
    /\ heard' = IF "Close" \in subscribed
                THEN Signal("Close", "Signalling has closed.", i)
                ELSE Signal("Error",
                            "Signalling has encountered and unknown error.", i)
    /\ UNCHANGED <<gatewayVars, verifierVars, config, closed, webSocket,
                   subscribed, called>>

\* the connection of socket i ends, by the peer or after webSocket.close():
\* webSocket.onclose
SocketCloses(i) ==
    /\ sockets[i] \in {"OPEN", "CLOSING"}
    /\ sockets' = [sockets EXCEPT ![i] = "CLOSED"]
    /\ heard' = Signal("Close", "Signalling has closed.", i)
    /\ UNCHANGED <<gatewayVars, verifierVars, config, closed, webSocket,
                   subscribed, called>>

\* the callback and message of webSocket.onmessage for a parsed signal
MessageSignal(signal, i) ==
    IF Truthy(signal)
    THEN Signal("Message", "Signalling general contact message.", i)
    ELSE Signal("ErrorDetails", "Signalling has encountered an unknown error.", i)

\* a message arrives on socket i: webSocket.onmessage; a text that is not
\* JSON throws in the handler and nothing is heard
SocketMessage(i, data) ==
    /\ sockets[i] \in {"OPEN", "CLOSING"}
    /\ heard' = IF JSONparse(data).ok
                THEN MessageSignal(JSONparse(data).val, i)
                ELSE heard
    /\ UNCHANGED <<gatewayVars, verifierVars, config, closed, webSocket,
                   sockets, subscribed, called>>

\* the browser's page: a client is constructed; no gateway, no verifier
SignalInit ==
    /\ appSettings = Undefined
    /\ running = FALSE
    /\ conns = {}
    /\ pc = [s \in Slots |-> "idle"]
    /\ req = [s \in Slots |-> [method |-> "", url |-> ""]]
    /\ authorization = [s \in Slots |-> Undefined]
    /\ route = [s \in Slots |-> "none"]
    /\ sessionId = [s \in Slots |-> Undefined]
    /\ callservice = [s \in Slots |-> NoService]
    /\ arrived = [s \in Slots |-> <<>>]
    /\ body = [s \in Slots |-> <<>>]
    /\ errorResult = [s \in Slots |-> ""]
    /\ invoked = [s \in Slots |-> <<>>]
    /\ calls = [s \in Slots |-> <<>>]
    /\ upstream = [s \in Slots |-> NoUpstream]
    /\ settled = [s \in Slots |-> [resolve |-> 0, reject |-> 0]]
    /\ envelope = [s \in Slots |-> <<>>]
    /\ result = [s \in Slots |-> Undefined]
    /\ res = [s \in Slots |-> <<>>]
    /\ VerifierInit
    /\ config \in {constructor(signalOptions) : signalOptions \in SignalOptions}
    /\ closed = TRUE
    /\ webSocket = Null
    /\ sockets = <<>>
    /\ subscribed = {}
    /\ heard = NoHeard
    /\ called = <<>>

SignalNext ==
    \/ onOpen
    \/ onError
    \/ onClose
    \/ onErrorDetails
    \/ onMessage
    \/ open
    \/ close
    \/ \E i \in 1..Len(sockets) : SocketOpens(i)
    \/ \E i \in 1..Len(sockets) : SocketFails(i)
    \/ \E i \in 1..Len(sockets) : SocketCloses(i)
    \/ \E i \in 1..Len(sockets), data \in MessageTexts : SocketMessage(i, data)

SignalSpec == SignalInit /\ [][SignalNext]_vars


-----------------------------------------------------------------------------
(* The signalling client: the closed flag *)

\* the step is a call of open() or of close()
CallStep(name) ==
    /\ Len(called') = Len(called) + 1
    /\ called'[Len(called')] = name

\* the flag before the n-th call and whether that call is effective, that
\* is, passes its guard, when effective calls are the ones that set the
\* flag: open() clears it, close() sets it
RECURSIVE FlagBefore(_)
RECURSIVE Effective(_)
FlagBefore(n) ==
    IF n = 1 THEN TRUE
    ELSE IF Effective(n - 1) THEN called[n - 1] = "close"
    ELSE FlagBefore(n - 1)

Effective(n) ==
    \/ called[n] = "open" /\ FlagBefore(n)
    \/ called[n] = "close" /\ ~FlagBefore(n)

\* the last effective call was open()
LastEffectiveIsOpen ==
    \E n \in 1..Len(called) :
        /\ Effective(n)
        /\ called[n] = "open"
        /\ \A m \in (n + 1)..Len(called) : ~Effective(m)

\* C31: open() on a client that is not closed creates no WebSocket and
\* changes nothing; close() on a closed client changes nothing; an open()
\* that passes its guard clears the flag and a close() that passes its guard
\* sets it; nothing else changes the flag; so the flag is false exactly when
\* the last effective call was open().
C31_ClosedFlagGuards ==
    /\ [](closed <=> ~LastEffectiveIsOpen)
    /\ [][/\ (CallStep("open") /\ ~closed)
                => UNCHANGED <<config, closed, webSocket, sockets, subscribed,
                               heard>>
          /\ (CallStep("close") /\ closed)
                => UNCHANGED <<config, closed, webSocket, sockets, subscribed,
                               heard>>
          /\ (CallStep("open") /\ closed) => ~closed'
          /\ (CallStep("close") /\ ~closed) => closed'
          /\ (called' = called) => (closed' = closed)]_vars

\* open(), open(), close(), close(): the second open() and the second
\* close() found the flag against them; one WebSocket was created
C31_Witness ==
    /\ called = <<"open", "open", "close", "close">>
    /\ closed
    /\ Len(sockets) = 1


-----------------------------------------------------------------------------
(* The signalling client: the sockets it holds *)

\* the WebSockets created that are neither closed nor closing
Live == {i \in 1..Len(sockets) : sockets[i] \in {"CONNECTING", "OPEN"}}

\* C32: after any calls of open() and close() and any changes of the
\* sockets' states, at most one WebSocket created by the client has not been
\* closed, and the callbacks hear of no socket that a later one has
\* superseded (the close of a socket the client closed aside).
C32_OneSocketAtATime ==
    /\ Cardinality(Live) <= 1
    /\ heard.socket # 0
           => \/ heard.socket = heard.newest
              \/ heard.message = "Signalling has closed."

\* open(), close() while the socket is connecting, open(): the first socket
\* was never closed and is no longer referenced; both are live
TwoLiveSockets ==
    /\ called = <<"open", "close", "open">>
    /\ Len(sockets) = 2
    /\ Live = {1, 2}
    /\ webSocket = Num(2)

\* the callback of onOpen heard the superseded socket open
SupersededSocketHeard ==
    heard = [message |-> "Signalling has opened.", socket |-> 1, newest |-> 2]

=============================================================================
